---- MODULE Spec2Model ----
(***************************************************************************)
(* Transfer reallocation engine of psi-erp                                 *)
(* (backend/app/services/transfer_logic.py): recommend_plan_lines with its *)
(* greedy strategy and the fair-share strategy _recommend_fair_share.      *)
(*                                                                         *)
(* Quantities are Decimals in the source.  Here a quantity is an integer   *)
(* number of ticks, one whole unit (MOVE_UNIT = Decimal("1")) being Scale  *)
(* ticks, so that fractional stock, gap and stdstock values exist.         *)
(***************************************************************************)
EXTENDS Integers, Sequences, FiniteSets, TLC

\* ------------------------------------------------------------------------
\* Bounds of the model (not program constants)
\* ------------------------------------------------------------------------
Scale == 2
MaxDonorGap == 3
MaxStd == 4
MaxShortage == 3
\* login: the two settings of the limiter (LOGIN_MAX_ATTEMPTS,
\* LOGIN_BLOCK_SECONDS), the worker threads serving requests, the last tick
\* of the clock, and the failed credential checks followed per key
max_attempts == 1
block_seconds == 2
MaxWorkers == 2
MaxNow == 2
MaxChecks == 2
\* policy service: the requests that call get_reallocation_policy at the
\* same time, each in its own database session
MaxCalls == 3
\* transfer plans: the lines of a payload and the largest quantity of a line
MaxLines == 2
MaxLineQty == 2
\* sessions: the ids that sessions are created with
MaxSessions == 3

\* ------------------------------------------------------------------------
\* Program constants
\* ------------------------------------------------------------------------
ZERO == 0
MOVE_UNIT == Scale
MaxDoublings == 32
MaxLambda == 1000

\* ------------------------------------------------------------------------
\* Generic helpers
\* ------------------------------------------------------------------------
Min2(a, b) == IF a <= b THEN a ELSE b
Max2(a, b) == IF a >= b THEN a ELSE b

RECURSIVE SumSeq(_)
SumSeq(s) == IF s = <<>> THEN 0 ELSE Head(s) + SumSeq(Tail(s))

\* insert x behind every element whose key is not smaller (stable, descending)
RECURSIVE InsertDesc(_, _)
InsertDesc(s, x) ==
    IF s = <<>> THEN <<x>>
    ELSE IF x.key > Head(s).key THEN <<x>> \o s
         ELSE <<Head(s)>> \o InsertDesc(Tail(s), x)

\* variant: the list is left in the order it was built
SortDesc_Unsorted(s) == s

\* list.sort(key=..., reverse=True) on records carrying their key: stable
RECURSIVE SortDesc(_)
SortDesc(s) ==
    IF s = <<>> THEN <<>>
    ELSE InsertDesc(SortDesc(SubSeq(s, 1, Len(s) - 1)), s[Len(s)])

RECURSIVE InsertAsc(_, _)
InsertAsc(s, x) ==
    IF s = <<>> THEN <<x>>
    ELSE IF x.key < Head(s).key THEN <<x>> \o s
         ELSE <<Head(s)>> \o InsertAsc(Tail(s), x)

\* sorted(..., key=...) on records carrying their key: stable, ascending
RECURSIVE SortAsc(_)
SortAsc(s) ==
    IF s = <<>> THEN <<>>
    ELSE InsertAsc(SortAsc(SubSeq(s, 1, Len(s) - 1)), s[Len(s)])

\* A Decimal value of the source is, in general, num/den ticks minus k times
\* a positive amount far below one tick (see the bisection below); a plain
\* quantity q is Exact(q).
Exact(q) == [num |-> q, den |-> 1, k |-> 0]

\* variant: no quantization
QuantizeFloor_Identity(q) == q

\* Decimal.quantize(MOVE_UNIT, rounding=ROUND_FLOOR) of a plain quantity
QuantizeFloor(q) == (q \div MOVE_UNIT) * MOVE_UNIT

\* v.quantize(MOVE_UNIT, rounding=ROUND_FLOOR): a value just below a whole
\* number of units falls to the unit below
QuantizeFloorV(v) ==
    LET unit == v.den * MOVE_UNIT
        whole == v.num \div unit
    IN IF v.k > 0 /\ v.num % unit = 0 THEN (whole - 1) * MOVE_UNIT
       ELSE whole * MOVE_UNIT

\* v.quantize(MOVE_UNIT, rounding=ROUND_CEILING)
QuantizeCeilV(v) ==
    LET unit == v.den * MOVE_UNIT
    IN ((v.num + unit - 1) \div unit) * MOVE_UNIT

\* v.quantize(MOVE_UNIT, rounding=ROUND_HALF_UP): a value just below a half
\* rounds down
QuantizeHalfUpV(v) ==
    LET unit == 2 * v.den * MOVE_UNIT
        twice == 2 * v.num + v.den * MOVE_UNIT
        whole == twice \div unit
    IN IF v.k > 0 /\ twice % unit = 0 THEN (whole - 1) * MOVE_UNIT
       ELSE whole * MOVE_UNIT

\* v <= ZERO
NotPositive(v) == v.num <= 0

_round_quantity(qty, mode) ==
    IF NotPositive(qty) THEN ZERO
    ELSE IF mode = "floor" THEN QuantizeFloorV(qty)
    ELSE IF mode = "ceil" THEN QuantizeCeilV(qty)
    ELSE QuantizeHalfUpV(qty)

_BUCKET_REASON ==
    [intra_nonmain |-> "fill main channel (intra)",
     inter_nonmain |-> "fill main channel (inter non-main)",
     inter_main |-> "fill main channel (inter main)"]

\* ------------------------------------------------------------------------
\* _CellState
\* ------------------------------------------------------------------------
\* _CellState.__init__ applied to a row as recommend_plan_lines does
NewCellState(row) ==
    [warehouse |-> row.warehouse_name,
     channel |-> row.channel,
     stock_at_anchor |-> IF row.stock_at_anchor > ZERO THEN row.stock_at_anchor ELSE ZERO,
     stdstock |-> IF row.stdstock > ZERO THEN row.stdstock ELSE ZERO,
     gap |-> row.gap,
     stock_closing |-> IF row.stock_closing > ZERO THEN row.stock_closing ELSE ZERO,
     surplus_remaining |-> IF row.gap > ZERO THEN row.gap ELSE ZERO,
     allocated_out |-> ZERO,
     allocated_in |-> ZERO]

\* variant: the stock that is left, whatever the surplus
available_surplus_IgnoringSurplus(c) ==
    LET stock_remaining == c.stock_at_anchor - c.allocated_out
    IN IF stock_remaining <= ZERO THEN ZERO ELSE stock_remaining

\* variant: the surplus alone, whatever stock is left
available_surplus_IgnoringStock(c) ==
    IF c.surplus_remaining <= ZERO THEN ZERO ELSE c.surplus_remaining

available_surplus(c) ==
    LET stock_remaining == c.stock_at_anchor - c.allocated_out
    IN IF stock_remaining <= ZERO THEN ZERO
       ELSE IF c.surplus_remaining <= ZERO THEN ZERO
       ELSE Min2(c.surplus_remaining, stock_remaining)

allocate(c, qty) ==
    LET remaining == c.surplus_remaining - qty
    IN [c EXCEPT !.allocated_out = @ + qty,
                 !.surplus_remaining = IF remaining > ZERO THEN remaining ELSE ZERO]

receive(c, qty) == [c EXCEPT !.allocated_in = @ + qty]

\* variant: the room below the standard, whatever stock the cell closes with
remaining_capacity_IgnoringClosing(c) ==
    LET capacity == c.stdstock - c.allocated_in
    IN IF capacity > ZERO THEN capacity ELSE ZERO

remaining_capacity(c) ==
    LET capacity == c.stdstock - (c.stock_closing + c.allocated_in)
    IN IF capacity > ZERO THEN capacity ELSE ZERO

\* ------------------------------------------------------------------------
\* Dictionaries in insertion order
\* ------------------------------------------------------------------------
\* warehouse_main_channels.get(warehouse); "" stands for None
RECURSIVE MainChannelOf(_, _)
MainChannelOf(wmc, warehouse) ==
    IF wmc = <<>> THEN ""
    ELSE IF Head(wmc)[1] = warehouse THEN Head(wmc)[2]
    ELSE MainChannelOf(Tail(wmc), warehouse)

\* cells.get((warehouse, channel)) as an index into the cell list; 0 is None
CellIndex(cells, warehouse, channel) ==
    LET hits == {i \in 1..Len(cells) :
                    cells[i].warehouse = warehouse /\ cells[i].channel = channel}
    IN IF hits = {} THEN 0 ELSE CHOOSE i \in hits : TRUE

\* variant: one dict of cells for all SKUs, under the code of the first row
AddRow_OneGroup(by_sku, row) ==
    IF by_sku = <<>>
    THEN <<[sku_code |-> row.sku_code, cells |-> <<NewCellState(row)>>]>>
    ELSE LET j == CellIndex(by_sku[1].cells, row.warehouse_name, row.channel)
         IN IF j = 0
            THEN [by_sku EXCEPT ![1].cells = Append(@, NewCellState(row))]
            ELSE [by_sku EXCEPT ![1].cells[j] = NewCellState(row)]

\* rows_by_sku.setdefault(row.sku_code, {})[key] = _CellState(...), for one row
AddRow(by_sku, row) ==
    LET hits == {i \in 1..Len(by_sku) : by_sku[i].sku_code = row.sku_code}
    IN IF hits = {}
       THEN Append(by_sku, [sku_code |-> row.sku_code, cells |-> <<NewCellState(row)>>])
       ELSE LET i == CHOOSE i \in hits : TRUE
                j == CellIndex(by_sku[i].cells, row.warehouse_name, row.channel)
            IN IF j = 0
               THEN [by_sku EXCEPT ![i].cells = Append(@, NewCellState(row))]
               ELSE [by_sku EXCEPT ![i].cells[j] = NewCellState(row)]

RECURSIVE GroupRows(_, _)
GroupRows(by_sku, rows) ==
    IF rows = <<>> THEN by_sku
    ELSE GroupRows(AddRow(by_sku, Head(rows)), Tail(rows))

\* ------------------------------------------------------------------------
\* State
\* ------------------------------------------------------------------------
VARIABLES
    matrix_rows,              \* argument: the rows, in the order given
    warehouse_main_channels,  \* argument: <<warehouse, channel>> pairs in dict order
    policy,                   \* argument: the ReallocationPolicyData
    rows_by_sku,              \* per SKU, in order of first appearance, its _CellStates
    recommendations,          \* the list of RecommendedMove built so far
    pc,                       \* position in recommend_plan_lines
    sku_i,                    \* position of the loop over rows_by_sku
    shortages,                \* greedy: the sorted shortage targets of the SKU
    target_i,                 \* greedy: position of the loop over shortages
    donors,                   \* greedy: the three donor lists of the target
    bucket,                   \* greedy: bucket being allocated from
    donor_i,                  \* greedy: position in the bucket's donor list
    shortage_remaining,       \* greedy: nonlocal shortage_remaining
    fs,                       \* fair share: the locals of _recommend_fair_share
    completed,                \* the caller: arguments and result of the calls that returned
    has_table,                \* database: inspector.has_table("reallocation_policies")
    policy_table,             \* database: the rows of reallocation_policies
    returned,                 \* policy service: outcome of the last call
    written,                  \* policy service: arguments of the updates that returned
    attempts,                 \* LoginRateLimiter._attempts: key -> timestamps
    now,                      \* time.monotonic()
    requests,                 \* per worker thread, its position in login()
    credential_checks,        \* per key, the times of the failed credential checks
    policy_calls,             \* per database session, its position in get_reallocation_policy
    transfer_plan_line,       \* database: the rows of transfer_plan_line
    plan_response,            \* transfer plan routes: outcome of the last request
    sessions,                 \* database: the rows of sessions
    uq_sessions_leader_true,  \* database: sessions has the unique index on is_leader = TRUE
    sessions_response         \* session routes: outcome of the last request

vars == <<matrix_rows, warehouse_main_channels, policy, rows_by_sku,
          recommendations, pc, sku_i, shortages, target_i, donors, bucket,
          donor_i, shortage_remaining, fs, completed, has_table,
          policy_table, returned, written, attempts, now, requests,
          credential_checks, policy_calls, transfer_plan_line, plan_response,
          sessions, uq_sessions_leader_true, sessions_response>>

\* the policy service with its table, and the login route with its limiter
policy_service == <<has_table, policy_table, returned, written>>
login_service == <<attempts, now, requests, credential_checks>>
\* the requests that run concurrently against the policy table, and the
\* transfer plan and session routes with their tables
policy_race == <<policy_calls>>
plan_routes == <<transfer_plan_line, plan_response>>
session_routes == <<sessions, uq_sessions_leader_true, sessions_response>>
routes == <<policy_race, plan_routes, session_routes>>

\* what a call never assigns: its arguments, the caller's record and the
\* state of the other services
inputs == <<matrix_rows, warehouse_main_channels, policy, completed,
            policy_service, login_service, routes>>
greedy_locals == <<shortages, target_i, donors, bucket, donor_i, shortage_remaining>>

NoDonors == [intra_nonmain |-> <<>>, inter_nonmain |-> <<>>, inter_main |-> <<>>]

\* the cells dict of the SKU being processed
Cells == rows_by_sku[sku_i].cells

\* variant: every move carries the tag of the first bucket
RecommendedMove_FirstTag(sku_code, from, to, qty, bucket_name) ==
    [sku_code |-> sku_code,
     from_warehouse |-> from.warehouse, from_channel |-> from.channel,
     to_warehouse |-> to.warehouse, to_channel |-> to.channel,
     qty |-> qty, reason |-> _BUCKET_REASON["intra_nonmain"]]

RecommendedMove(sku_code, from, to, qty, bucket_name) ==
    [sku_code |-> sku_code,
     from_warehouse |-> from.warehouse, from_channel |-> from.channel,
     to_warehouse |-> to.warehouse, to_channel |-> to.channel,
     qty |-> qty, reason |-> _BUCKET_REASON[bucket_name]]

\* indices of the cells satisfying Keep, largest available surplus first
\* (list comprehension over cells.items(), then sort(..., reverse=True))
DonorsSorted(cells, keep) ==
    LET all == [i \in 1..Len(cells) |-> [key |-> available_surplus(cells[i]), idx |-> i]]
        kept == SelectSeq(all, LAMBDA d : d.idx \in keep /\ d.key > ZERO)
        sorted == SortDesc(kept)
    IN [i \in 1..Len(sorted) |-> sorted[i].idx]

\* ------------------------------------------------------------------------
\* recommend_plan_lines: grouping and the greedy strategy
\* ------------------------------------------------------------------------
\* variant: the magnitude of the gap, surplus included
ShortageOf_Magnitude(cell) == IF cell.gap < ZERO THEN ZERO - cell.gap ELSE cell.gap

\* variant: twice the shortage
ShortageOf_Doubled(cell) == IF cell.gap < ZERO THEN 2 * (ZERO - cell.gap) ELSE ZERO

\* the shortage of a main cell as the greedy loop computes it
ShortageOf(cell) == IF cell.gap < ZERO THEN ZERO - cell.gap ELSE ZERO

\* shortages list of one SKU before sorting
ShortageList(cells, wmc) ==
    LET all == [i \in 1..Len(wmc) |->
                   LET idx == CellIndex(cells, wmc[i][1], wmc[i][2])
                   IN [key |-> IF idx = 0 THEN ZERO ELSE ShortageOf(cells[idx]),
                       idx |-> idx]]
    IN SelectSeq(all, LAMBDA t : t.idx # 0 /\ t.key > ZERO)

Group ==
    /\ pc = "group"
    /\ rows_by_sku' = GroupRows(<<>>, matrix_rows)
    /\ sku_i' = 1
    /\ pc' = "sku"
    /\ UNCHANGED <<inputs, recommendations, greedy_locals, fs>>

GreedySku ==
    /\ pc = "sku"
    /\ sku_i <= Len(rows_by_sku)
    /\ policy.fair_share_mode = "off"
    /\ shortages' = SortDesc(ShortageList(Cells, warehouse_main_channels))
    /\ target_i' = 1
    /\ pc' = "target"
    /\ UNCHANGED <<inputs, rows_by_sku, recommendations, sku_i, donors, bucket,
                   donor_i, shortage_remaining, fs>>

GreedyTarget ==
    /\ pc = "target"
    /\ target_i <= Len(shortages)
    /\ LET receiver == Cells[shortages[target_i].idx]
           warehouse == receiver.warehouse
           main_channel == receiver.channel
           intra == {i \in 1..Len(Cells) :
                        Cells[i].warehouse = warehouse /\ Cells[i].channel # main_channel}
           inter == {i \in 1..Len(Cells) : Cells[i].warehouse # warehouse}
           is_main(i) == MainChannelOf(warehouse_main_channels, Cells[i].warehouse)
                             = Cells[i].channel
       IN donors' = [intra_nonmain |-> DonorsSorted(Cells, intra),
                     inter_nonmain |-> DonorsSorted(Cells, {i \in inter : ~is_main(i)}),
                     inter_main |-> DonorsSorted(Cells, {i \in inter : is_main(i)})]
    /\ shortage_remaining' = shortages[target_i].key
    /\ bucket' = "intra_nonmain"
    /\ donor_i' = 1
    /\ pc' = "bucket"
    /\ UNCHANGED <<inputs, rows_by_sku, recommendations, sku_i, shortages, target_i, fs>>

GreedySkuDone ==
    /\ pc = "target"
    /\ target_i > Len(shortages)
    /\ sku_i' = sku_i + 1
    /\ pc' = "sku"
    /\ UNCHANGED <<inputs, rows_by_sku, recommendations, greedy_locals, fs>>

\* variant: the fill is given up when the donor holds more than the room
GreedyDecision_RoomBelowDonor(donor_state, receiver_state, remaining, pol) ==
    LET available == available_surplus(donor_state)
        receiver_room == remaining_capacity(receiver_state)
        raw_qty == Min2(Min2(available, remaining), receiver_room)
        qty == QuantizeFloor(IF pol.allow_overfill THEN Min2(available, remaining)
                             ELSE raw_qty)
    IN IF available <= ZERO THEN [kind |-> "skip", qty |-> ZERO]
       ELSE IF ~pol.allow_overfill /\ receiver_room < available
            THEN [kind |-> "blocked", qty |-> ZERO]
       ELSE IF qty <= ZERO THEN [kind |-> "skip", qty |-> ZERO]
       ELSE [kind |-> "move", qty |-> qty]

\* what one iteration of the donor loop of allocate_from_bucket decides:
\* "skip" (continue), "blocked" (return False) or "move" with its qty
GreedyDecision(donor_state, receiver_state, remaining, pol) ==
    LET available == available_surplus(donor_state)
        receiver_room == remaining_capacity(receiver_state)
        raw0 == Min2(available, remaining)
        raw_qty == IF pol.allow_overfill THEN raw0 ELSE Min2(raw0, receiver_room)
        qty0 == _round_quantity(Exact(raw_qty), pol.rounding_mode)
        max1 == QuantizeFloor(raw_qty)
        max2 == IF pol.allow_overfill THEN max1
                ELSE Min2(max1, QuantizeFloor(receiver_room))
        max_allowed == Min2(max2, Min2(QuantizeFloor(available), QuantizeFloor(remaining)))
        qty == IF qty0 > max_allowed THEN max_allowed ELSE qty0
    IN IF available <= ZERO THEN [kind |-> "skip", qty |-> ZERO]
       ELSE IF ~pol.allow_overfill /\ receiver_room <= ZERO
            THEN [kind |-> "blocked", qty |-> ZERO]
       ELSE IF raw_qty <= ZERO THEN [kind |-> "skip", qty |-> ZERO]
       ELSE IF qty0 <= ZERO THEN [kind |-> "skip", qty |-> ZERO]
       ELSE IF max_allowed <= ZERO THEN [kind |-> "skip", qty |-> ZERO]
       ELSE IF qty <= ZERO THEN [kind |-> "skip", qty |-> ZERO]
       ELSE [kind |-> "move", qty |-> qty]

GreedyAllocate ==
    /\ pc = "bucket"
    /\ donor_i <= Len(donors[bucket])
    /\ shortage_remaining > ZERO
    /\ LET d == donors[bucket][donor_i]
           r == shortages[target_i].idx
           dec == GreedyDecision(Cells[d], Cells[r], shortage_remaining, policy)
       IN \/ /\ dec.kind = "skip"
             /\ donor_i' = donor_i + 1
             /\ UNCHANGED <<rows_by_sku, recommendations, shortage_remaining,
                            target_i, pc>>
          \/ /\ dec.kind = "blocked"
             /\ target_i' = target_i + 1
             /\ pc' = "target"
             /\ UNCHANGED <<rows_by_sku, recommendations, shortage_remaining, donor_i>>
          \/ /\ dec.kind = "move"
             /\ rows_by_sku' = [rows_by_sku EXCEPT
                                   ![sku_i].cells[d] = allocate(@, dec.qty),
                                   ![sku_i].cells[r] = receive(@, dec.qty)]
             /\ shortage_remaining' = shortage_remaining - dec.qty
             /\ recommendations' = Append(recommendations,
                    RecommendedMove(rows_by_sku[sku_i].sku_code, Cells[d], Cells[r],
                                    dec.qty, bucket))
             /\ donor_i' = donor_i + 1
             /\ UNCHANGED <<target_i, pc>>
    /\ UNCHANGED <<inputs, sku_i, shortages, donors, bucket, fs>>

\* variant: the inter_main bucket whatever the policy says
GreedyNextBucket_NoGate(current, remaining, pol) ==
    IF remaining <= ZERO THEN "none"
    ELSE IF current = "intra_nonmain" THEN "inter_nonmain"
    ELSE IF current = "inter_nonmain" THEN "inter_main"
    ELSE "none"

\* variant: the main channels of the other warehouses before their
\* secondary channels
GreedyNextBucket_MainFirst(current, remaining, pol) ==
    IF remaining <= ZERO THEN "none"
    ELSE IF current = "intra_nonmain"
         THEN (IF pol.take_from_other_main THEN "inter_main" ELSE "inter_nonmain")
    ELSE IF current = "inter_main" THEN "inter_nonmain"
    ELSE "none"

\* allocate_from_bucket returned True: the bucket that lines 291-304 try next
GreedyNextBucket(current, remaining, pol) ==
    IF remaining <= ZERO THEN "none"
    ELSE IF current = "intra_nonmain" THEN "inter_nonmain"
    ELSE IF current = "inter_nonmain" /\ pol.take_from_other_main THEN "inter_main"
    ELSE "none"

\* the donor loop of allocate_from_bucket has ended (lines 217-219, 289)
GreedyBucketEnd ==
    /\ pc = "bucket"
    /\ donor_i > Len(donors[bucket]) \/ shortage_remaining <= ZERO
    /\ LET next_bucket == GreedyNextBucket(bucket, shortage_remaining, policy)
       IN IF next_bucket = "none"
          THEN /\ target_i' = target_i + 1
               /\ pc' = "target"
               /\ UNCHANGED <<bucket, donor_i>>
          ELSE /\ bucket' = next_bucket
               /\ donor_i' = 1
               /\ UNCHANGED <<target_i, pc>>
    /\ UNCHANGED <<inputs, rows_by_sku, recommendations, sku_i, shortages, donors,
                   shortage_remaining, fs>>

\* variant: what the cells gave is written back to the rows
Return_WriteBack ==
    /\ pc = "sku"
    /\ sku_i > Len(rows_by_sku)
    /\ pc' = "done"
    /\ matrix_rows' =
          [n \in 1..Len(matrix_rows) |->
              LET given == SumSeq([m \in 1..Len(recommendations) |->
                                      IF /\ recommendations[m].from_warehouse
                                               = matrix_rows[n].warehouse_name
                                         /\ recommendations[m].from_channel
                                               = matrix_rows[n].channel
                                      THEN recommendations[m].qty ELSE 0])
              IN [matrix_rows[n] EXCEPT !.stock_at_anchor = @ - given]]
    /\ UNCHANGED <<warehouse_main_channels, policy, completed, rows_by_sku,
                   recommendations, sku_i, greedy_locals, fs,
                   policy_service, login_service, routes>>

Return ==
    /\ pc = "sku"
    /\ sku_i > Len(rows_by_sku)
    /\ pc' = "done"
    /\ UNCHANGED <<inputs, rows_by_sku, recommendations, sku_i, greedy_locals, fs>>

\* ------------------------------------------------------------------------
\* _recommend_fair_share: receivers, donor pools and whole-unit budget
\* ------------------------------------------------------------------------
\* max_receivable of a receiver when allow_overfill is true
None == -1

\* the _FairShareReceiver list, in warehouse_main_channels order (lines 343-376)
FairReceivers(cells, wmc, pol) ==
    LET all == [i \in 1..Len(wmc) |->
                  LET idx == CellIndex(cells, wmc[i][1], wmc[i][2])
                      state == cells[idx]
                  IN IF idx = 0 THEN [idx |-> 0]
                     ELSE [idx |-> idx,
                           warehouse |-> wmc[i][1],
                           channel |-> wmc[i][2],
                           base |-> IF pol.fair_share_mode = "equalize_ratio_start"
                                    THEN state.stock_at_anchor
                                    ELSE state.stock_closing,
                           std |-> state.stdstock,
                           shortage |-> ShortageOf(state),
                           max_receivable |-> IF pol.allow_overfill THEN None
                                              ELSE remaining_capacity(state)]]
    IN SelectSeq(all, LAMBDA r :
            /\ r.idx # 0
            /\ r.shortage > ZERO
            /\ r.std > ZERO
            /\ (~pol.allow_overfill => r.max_receivable > ZERO))

IsMainCell(cell, wmc) == MainChannelOf(wmc, cell.warehouse) = cell.channel

\* donors_nonmain and donors_inter_main after their sort (lines 381-400)
FairDonorsNonmain(cells, wmc) ==
    DonorsSorted(cells, {i \in 1..Len(cells) : ~IsMainCell(cells[i], wmc)})

FairDonorsInterMain(cells, wmc, pol) ==
    IF pol.take_from_other_main
    THEN DonorsSorted(cells, {i \in 1..Len(cells) : IsMainCell(cells[i], wmc)})
    ELSE <<>>

\* donors_intra_by_warehouse.get(warehouse, []) (lines 402-407)
FairDonorsIntra(cells, donors_nonmain, warehouse) ==
    SelectSeq(donors_nonmain, LAMBDA d : cells[d].warehouse = warehouse)

AvailableOf(cells, ds) == SumSeq([i \in 1..Len(ds) |-> available_surplus(cells[ds[i]])])
AvailableUnitsOf(cells, ds) ==
    SumSeq([i \in 1..Len(ds) |-> QuantizeFloor(available_surplus(cells[ds[i]]))])

\* total_available (lines 383-397)
TotalAvailable(cells, wmc, pol) ==
    AvailableOf(cells, FairDonorsNonmain(cells, wmc))
        + AvailableOf(cells, FairDonorsInterMain(cells, wmc, pol))

\* effective_total (lines 440-448)
EffectiveTotal(cells, wmc, pol, receivers) ==
    IF ~pol.allow_overfill
    THEN Min2(TotalAvailable(cells, wmc, pol),
              SumSeq([i \in 1..Len(receivers) |-> receivers[i].max_receivable]))
    ELSE TotalAvailable(cells, wmc, pol)

\* available_units (lines 450-470)
AvailableUnits(cells, wmc, pol, receivers) ==
    LET donor_units0 == AvailableUnitsOf(cells, FairDonorsNonmain(cells, wmc))
                          + AvailableUnitsOf(cells, FairDonorsInterMain(cells, wmc, pol))
        capacity_units == SumSeq([i \in 1..Len(receivers) |->
                                     QuantizeFloor(receivers[i].max_receivable)])
        donor_units == IF ~pol.allow_overfill THEN Min2(donor_units0, capacity_units)
                       ELSE donor_units0
    IN Min2(QuantizeFloor(EffectiveTotal(cells, wmc, pol, receivers)), donor_units)

\* ------------------------------------------------------------------------
\* _recommend_fair_share: the fill ratio lambda and the per-receiver plan
\* ------------------------------------------------------------------------
\* A ratio is the fraction p/q, q > 0.  A fill ratio additionally carries
\* e: the ratio is p/q - e * (a positive amount far below the resolution).
RatLess(a, b) == a.p * b.q < b.p * a.q
RatLeq(a, b) == a.p * b.q <= b.p * a.q

\* min(ratio_values), floored at zero (lines 472-478)
MinRatio(receivers) ==
    LET i == CHOOSE i \in 1..Len(receivers) :
                 \A j \in 1..Len(receivers) :
                     receivers[i].base * receivers[j].std
                         <= receivers[j].base * receivers[i].std
    IN [p |-> receivers[i].base, q |-> receivers[i].std]

\* one receiver's need in needs_for_lambda (lines 483-499); the result is
\* need.num / lam.q ticks minus need.k small amounts
NeedOf(r, lam, pol) ==
    LET over_std == ~pol.allow_overfill /\ r.std * lam.p > r.std * lam.q
        target == IF over_std THEN [num |-> r.std * lam.q, k |-> 0]
                  ELSE [num |-> r.std * lam.p, k |-> r.std * lam.e]
        need == [num |-> target.num - r.base * lam.q, k |-> target.k]
    IN IF need.num <= 0 THEN [num |-> 0, k |-> 0]
       ELSE IF r.max_receivable # None /\ need.num > r.max_receivable * lam.q
            THEN [num |-> r.max_receivable * lam.q, k |-> 0]
       ELSE need

\* needs_for_lambda (lines 480-500): the needs, and their total as a numerator
needs_for_lambda(receivers, lam, pol) ==
    [i \in 1..Len(receivers) |-> NeedOf(receivers[i], lam, pol)]

TotalNeed(receivers, lam, pol) ==
    SumSeq([i \in 1..Len(receivers) |-> NeedOf(receivers[i], lam, pol).num])

\* total + QUANT < effective_total for a ratio on the model's grid, where the
\* two sides differ by nothing or by far more than QUANT = 0.000001
TotalBelow(receivers, lam, pol, effective_total) ==
    TotalNeed(receivers, lam, pol) < effective_total * lam.q

\* the upper bound after the doubling loop (lines 506-516).  When min_ratio
\* is at least 1 the source starts QUANT above it; QUANT is below the
\* resolution and only the doublings count.
RECURSIVE ExpandHigh(_, _, _, _, _)
ExpandHigh(receivers, high, iterations, pol, effective_total) ==
    IF TotalBelow(receivers, high, pol, effective_total) /\ iterations < MaxDoublings
    THEN LET doubled == [high EXCEPT !.p = 2 * @]
         IN IF doubled.p > MaxLambda * doubled.q THEN doubled
            ELSE ExpandHigh(receivers, doubled, iterations + 1, pol, effective_total)
    ELSE high

InitialHigh(receivers) ==
    LET min_ratio == MinRatio(receivers)
    IN IF min_ratio.p >= min_ratio.q THEN [p |-> min_ratio.p, q |-> min_ratio.q, e |-> 0]
       ELSE [p |-> 1, q |-> 1, e |-> 0]

\* The total need is continuous, piecewise linear and non-decreasing in the
\* ratio; on each piece some receivers (active) grow with slope std and some
\* (capped) sit at their cap.  The ratio at which the total equals
\* effective_total therefore is (effective_total - caps + bases of the
\* active) / (stds of the active) for some choice of active and capped
\* receivers.
ReceiverCap(r, pol) ==
    IF pol.allow_overfill THEN 0 ELSE Min2(r.std - r.base, r.max_receivable)

RECURSIVE SumOver(_, _, _)
SumOver(receivers, S, field) ==
    IF S = {} THEN 0
    ELSE LET i == CHOOSE i \in S : TRUE
         IN (IF field = "base" THEN receivers[i].base
             ELSE IF field = "std" THEN receivers[i].std
             ELSE receivers[i].cap) + SumOver(receivers, S \ {i}, field)

LambdaCandidates(receivers, pol, effective_total) ==
    LET R == 1..Len(receivers)
        rc == [i \in R |-> [base |-> receivers[i].base, std |-> receivers[i].std,
                            cap |-> ReceiverCap(receivers[i], pol)]]
        capped_sets(A) == IF pol.allow_overfill THEN {{}} ELSE SUBSET (R \ A)
        all == {[p |-> effective_total - SumOver(rc, C, "cap") + SumOver(rc, A, "base"),
                 q |-> SumOver(rc, A, "std"), e |-> 0] :
                   <<A, C>> \in {<<A, C>> \in (SUBSET R) \X (SUBSET R) :
                                    A # {} /\ C \in capped_sets(A)}}
    IN {lam \in all : lam.p >= 0
                      /\ TotalNeed(receivers, lam, pol) = effective_total * lam.q}

\* The 60 halvings of [min_ratio, high] (lines 518-527) end at most
\* (high - min_ratio) / 2^60 above the least ratio whose total need comes
\* within QUANT of effective_total.  That ratio lies just below the least
\* ratio whose total need equals effective_total: it is that ratio with e = 1,
\* so that a need of exactly n units is computed as slightly less than n.
\* When even the expanded upper bound cannot meet effective_total the source
\* is left with that upper bound.
LambdaValue(receivers, pol, effective_total) ==
    LET high == ExpandHigh(receivers, InitialHigh(receivers), 0, pol, effective_total)
        cands == LambdaCandidates(receivers, pol, effective_total)
        least == CHOOSE lam \in cands : \A other \in cands : RatLeq(lam, other)
    IN IF TotalBelow(receivers, high, pol, effective_total) THEN high
       ELSE [least EXCEPT !.e = 1]

\* plans (lines 530-537) as values
Plans(receivers, lam, pol) ==
    LET needs == needs_for_lambda(receivers, lam, pol)
    IN [i \in 1..Len(receivers) |-> [num |-> needs[i].num, den |-> lam.q, k |-> needs[i].k]]

\* rounded_plans before the reconciliation (lines 539-546)
RoundedPlans(receivers, plans, pol) ==
    [i \in 1..Len(receivers) |->
        LET qty == _round_quantity(plans[i], pol.rounding_mode)
            cap == QuantizeFloor(receivers[i].max_receivable)
        IN IF receivers[i].max_receivable # None /\ qty > cap THEN cap ELSE qty]

\* plans[idx] as a sort key: plans share one denominator, and of two plans
\* with equal num the one with the smaller k is the larger
PlanLess(a, b) == a.num < b.num \/ (a.num = b.num /\ a.k > b.k)

\* variant: ascending plan
IndicesSorted_Ascending(receivers, plans) ==
    LET keyed == [i \in 1..Len(receivers) |->
                     [key |-> Cardinality({j \in 1..Len(receivers) :
                                              PlanLess(plans[j], plans[i])}),
                      idx |-> i]]
        sorted == SortAsc(keyed)
    IN [i \in 1..Len(sorted) |-> sorted[i].idx]

\* indices_sorted (lines 550-552): descending plan, stable.  The key of an
\* index is the number of plans below its own.
IndicesSorted(receivers, plans) ==
    LET keyed == [i \in 1..Len(receivers) |->
                     [key |-> Cardinality({j \in 1..Len(receivers) :
                                              PlanLess(plans[j], plans[i])}),
                      idx |-> i]]
        sorted == SortDesc(keyed)
    IN [i \in 1..Len(sorted) |-> sorted[i].idx]

\* variant: no reconciliation of the rounding drift
apply_adjustment_Skipped(rounded_plans, receivers, indices, remaining) == rounded_plans

\* apply_adjustment (lines 554-583): the loop over indices_sorted, the inner
\* while loops folded into the number of units they add or remove
RECURSIVE apply_adjustment(_, _, _, _)
apply_adjustment(rounded_plans, receivers, indices, remaining) ==
    IF indices = <<>> \/ remaining = ZERO THEN rounded_plans
    ELSE LET idx == Head(indices)
             cap == QuantizeFloor(receivers[idx].max_receivable)
             room == IF receivers[idx].max_receivable = None THEN remaining
                     ELSE Max2(0, cap - rounded_plans[idx])
             step == IF remaining > ZERO THEN Min2(remaining, room)
                     ELSE 0 - Min2(0 - remaining, Max2(rounded_plans[idx], 0))
         IN apply_adjustment([rounded_plans EXCEPT ![idx] = @ + step],
                             receivers, Tail(indices), remaining - step)

\* receiver_order (lines 598-601): ascending base/std, stable.  The key of
\* a receiver is the number of receivers with a ratio below its own.
ReceiverOrder(receivers) ==
    LET ratio(i) == [p |-> receivers[i].base, q |-> receivers[i].std]
        keyed == [i \in 1..Len(receivers) |->
                     [key |-> Cardinality({j \in 1..Len(receivers) :
                                              RatLess(ratio(j), ratio(i))}),
                      idx |-> i]]
        sorted == SortAsc(keyed)
    IN [i \in 1..Len(sorted) |-> sorted[i].idx]

\* ------------------------------------------------------------------------
\* _recommend_fair_share: planning (lines 343-603) and execution (658-710)
\* ------------------------------------------------------------------------
\* the locals of a call that returns before planning
FairReturned(receivers) ==
    [receivers |-> receivers, planned |-> FALSE]

\* the locals after planning
FairPlanned(cells, wmc, pol, receivers) ==
    LET effective_total == EffectiveTotal(cells, wmc, pol, receivers)
        available_units == AvailableUnits(cells, wmc, pol, receivers)
        lambda_value == LambdaValue(receivers, pol, effective_total)
        plans == Plans(receivers, lambda_value, pol)
        rounded_plans == RoundedPlans(receivers, plans, pol)
        diff == available_units - SumSeq(rounded_plans)
        adjusted == apply_adjustment(rounded_plans, receivers,
                                     IndicesSorted(receivers, plans), diff)
        remaining_plan == [i \in 1..Len(receivers) |->
                              IF adjusted[i] > ZERO THEN adjusted[i] ELSE ZERO]
    IN [receivers |-> receivers,
        planned |-> TRUE,
        effective_total |-> effective_total,
        available_units |-> available_units,
        lambda_value |-> lambda_value,
        plans |-> plans,
        rounded_plans |-> adjusted,
        remaining_plan |-> remaining_plan,
        allocated |-> [i \in 1..Len(receivers) |-> ZERO],
        remaining_total |-> SumSeq(remaining_plan),
        receiver_order |-> ReceiverOrder(receivers),
        donors_nonmain |-> FairDonorsNonmain(cells, wmc),
        donors_inter_main |-> FairDonorsInterMain(cells, wmc, pol),
        receiver_i |-> 1,
        donor_i |-> 1]

FairShareSku ==
    /\ pc = "sku"
    /\ sku_i <= Len(rows_by_sku)
    /\ policy.fair_share_mode # "off"
    /\ LET receivers == FairReceivers(Cells, warehouse_main_channels, policy)
           returns == \/ receivers = <<>>
                      \/ TotalAvailable(Cells, warehouse_main_channels, policy) <= ZERO
                      \/ /\ ~policy.allow_overfill
                         /\ SumSeq([i \in 1..Len(receivers) |->
                                       receivers[i].max_receivable]) <= ZERO
       IN IF returns
          THEN /\ fs' = FairReturned(receivers)
               /\ sku_i' = sku_i + 1
               /\ pc' = "sku"
          ELSE /\ fs' = FairPlanned(Cells, warehouse_main_channels, policy, receivers)
               /\ pc' = "fs_intra_nonmain"
               /\ UNCHANGED sku_i
    /\ UNCHANGED <<inputs, rows_by_sku, recommendations, greedy_locals>>

\* the quantity one execution step moves (lines 669-673, 686-690, 703-707)
FairQty(donor_state, receiver_state, remaining, pol) ==
    LET qty0 == Min2(available_surplus(donor_state), remaining)
        qty1 == IF ~pol.allow_overfill
                THEN Min2(qty0, remaining_capacity(receiver_state)) ELSE qty0
    IN QuantizeFloor(qty1)

\* commit_move (lines 611-656); r is the receiver's position in fs.receivers
commit_move(d, r, qty, bucket_name) ==
    LET c == fs.receivers[r].idx
        left == fs.remaining_plan[r] - qty
        total_left == fs.remaining_total - qty
    IN /\ rows_by_sku' = [rows_by_sku EXCEPT
                             ![sku_i].cells[d] = allocate(@, qty),
                             ![sku_i].cells[c] = receive(@, qty)]
       /\ recommendations' = Append(recommendations,
              RecommendedMove(rows_by_sku[sku_i].sku_code, Cells[d], Cells[c],
                              qty, bucket_name))
       /\ fs' = [fs EXCEPT
                    !.remaining_plan[r] = IF left < ZERO THEN ZERO ELSE left,
                    !.allocated[r] = @ + qty,
                    !.remaining_total = IF total_left < ZERO THEN ZERO ELSE total_left,
                    !.donor_i = IF bucket_name = "intra_nonmain" THEN @ + 1 ELSE @]

\* variant: the loop starts over
FairNextPhase_Again(phase) == phase

\* what follows the intra-warehouse loop and each later loop (lines 678, 695)
FairNextPhase(phase) ==
    IF phase = "fs_intra_nonmain" /\ fs.remaining_total > ZERO THEN "fs_inter_nonmain"
    ELSE IF phase # "fs_inter_main" /\ fs.remaining_total > ZERO
            /\ policy.take_from_other_main THEN "fs_inter_main"
    ELSE "sku"

FairEndPhase ==
    /\ pc' = FairNextPhase(pc)
    /\ sku_i' = IF pc' = "sku" THEN sku_i + 1 ELSE sku_i
    /\ fs' = [fs EXCEPT !.donor_i = 1, !.receiver_i = 1]
    /\ UNCHANGED <<rows_by_sku, recommendations>>

\* one iteration of the intra-warehouse loops (lines 659-676)
FairIntra ==
    /\ pc = "fs_intra_nonmain"
    /\ IF fs.receiver_i > Len(fs.receiver_order)
       THEN FairEndPhase
       ELSE LET r == fs.receiver_order[fs.receiver_i]
                receiver == fs.receivers[r]
                ds == FairDonorsIntra(Cells, fs.donors_nonmain, receiver.warehouse)
                d == ds[fs.donor_i]
                qty == FairQty(Cells[d], Cells[receiver.idx], fs.remaining_plan[r], policy)
            IN IF \/ fs.donor_i > Len(ds)
                  \/ fs.remaining_plan[r] <= ZERO
                  \/ fs.remaining_total <= ZERO
               THEN /\ fs' = [fs EXCEPT !.receiver_i = @ + 1, !.donor_i = 1]
                    /\ UNCHANGED <<rows_by_sku, recommendations, sku_i, pc>>
               ELSE IF available_surplus(Cells[d]) <= ZERO \/ qty <= ZERO
               THEN /\ fs' = [fs EXCEPT !.donor_i = @ + 1]
                    /\ UNCHANGED <<rows_by_sku, recommendations, sku_i, pc>>
               ELSE /\ commit_move(d, r, qty, "intra_nonmain")
                    /\ UNCHANGED <<sku_i, pc>>
    /\ UNCHANGED <<inputs, greedy_locals>>

\* next_receiver_with_need (lines 605-609); 0 is None
next_receiver_with_need ==
    LET with_need == SelectSeq(fs.receiver_order, LAMBDA r : fs.remaining_plan[r] > ZERO)
    IN IF with_need = <<>> THEN 0 ELSE Head(with_need)

\* one iteration of the while loop of an inter-warehouse bucket
\* (lines 678-693 and 695-710), or the step to the next donor
FairInter(bucket_name) ==
    /\ pc = "fs_" \o bucket_name
    /\ LET ds == IF bucket_name = "inter_nonmain" THEN fs.donors_nonmain
                 ELSE fs.donors_inter_main
           d == ds[fs.donor_i]
           r == next_receiver_with_need
           qty == FairQty(Cells[d], Cells[fs.receivers[r].idx], fs.remaining_plan[r], policy)
       IN IF fs.donor_i > Len(ds)
          THEN FairEndPhase
          ELSE IF /\ available_surplus(Cells[d]) > ZERO
                  /\ fs.remaining_total > ZERO
                  /\ r # 0
                  /\ qty > ZERO
          THEN /\ commit_move(d, r, qty, bucket_name)
               /\ UNCHANGED <<sku_i, pc>>
          ELSE /\ fs' = [fs EXCEPT !.donor_i = @ + 1]
               /\ UNCHANGED <<rows_by_sku, recommendations, sku_i, pc>>
    /\ UNCHANGED <<inputs, greedy_locals>>

FairInterNonmain == FairInter("inter_nonmain")
FairInterMain == FairInter("inter_main")

\* ------------------------------------------------------------------------
\* Inputs and specification
\* ------------------------------------------------------------------------
MatrixRowData(sku, warehouse, channel, anchor, closing, std, gap) ==
    [sku_code |-> sku, warehouse_name |-> warehouse, channel |-> channel,
     stock_at_anchor |-> anchor, stock_closing |-> closing, stdstock |-> std,
     gap |-> gap]

RoundingModes == {"floor", "round", "ceil"}
FairShareModes == {"off", "equalize_ratio_closing", "equalize_ratio_start"}
DeficitBases == {"start", "closing"}

\* The policy handed to the engine.  deficit_basis is a column of the
\* persisted policy (models.ReallocationPolicy) and an argument of the tests'
\* _policy; the dataclass has no such field and the engine never reads it.
ReallocationPolicyData(deficit_bases) ==
    [take_from_other_main : BOOLEAN, rounding_mode : RoundingModes,
     allow_overfill : BOOLEAN, fair_share_mode : FairShareModes,
     deficit_basis : deficit_bases]

\* <<stock_at_anchor, stock_closing, stdstock, gap>> of the row of a main
\* channel, in ticks: short cells with different reference stocks and
\* capacities, a cell already above its standard at closing, a cell short by
\* half a unit, one with another standard, a cell with surplus, and a cell
\* with negative stock and no standard
MainShapes ==
    {<<b[1], b[2], MaxStd, 0 - MaxShortage>> :
        b \in {<<0, 0>>, <<1, 0>>, <<0, 1>>, <<0, 2>>, <<1, MaxStd + 1>>}}
    \cup {<<0, 0, MaxStd, -1>>,
          <<0, 1, MaxStd - 1, 0 - MaxShortage>>,
          <<MaxDonorGap, MaxDonorGap, 1, MaxDonorGap - 1>>,
          <<-1, -1, 0, -1>>}

\* the same for a secondary channel: surplus of half a unit or of
\* MaxDonorGap ticks backed by no, little or enough stock, and a short cell
SecondaryShapes ==
    {<<a, a, 0, g>> : a \in {0, 2, MaxDonorGap}, g \in {1, MaxDonorGap}}
    \cup {<<1, 1, 2, -1>>}

SecondaryShapesW2 ==
    {<<0, 0, 0, 1>>, <<MaxDonorGap, MaxDonorGap, 0, 1>>,
     <<MaxDonorGap, MaxDonorGap, 0, MaxDonorGap>>}

RowsOf(sku, m1, s1, m2, s2) ==
    <<MatrixRowData(sku, "W1", "main", m1[1], m1[2], m1[3], m1[4]),
      MatrixRowData(sku, "W1", "sec", s1[1], s1[2], s1[3], s1[4]),
      MatrixRowData(sku, "W2", "main", m2[1], m2[2], m2[3], m2[4]),
      MatrixRowData(sku, "W2", "sec", s2[1], s2[2], s2[3], s2[4])>>

MainChannelMaps ==
    {<<<<"W1", "main">>, <<"W2", "main">>>>, <<<<"W1", "main">>>>}

\* nothing has called the policy service
PolicyServiceAtRest ==
    /\ has_table = FALSE
    /\ policy_table = {}
    /\ returned = [op |-> "none"]
    /\ written = <<>>

\* login requests: the threads of the worker pool, one client host, the
\* usernames sent, and the keys of the limiter they fall under
Workers == 1..MaxWorkers
Hosts == {"10.0.0.1"}
Usernames == {"alice", "Alice", "bob"}
Passwords == {"right", "wrong"}

\* str.lower() on the usernames
Lower(username) == IF username = "Alice" THEN "alice" ELSE username

_client_key(host, username) == <<host, Lower(username)>>

Keys == {_client_key(h, u) : h \in Hosts, u \in Usernames}

\* a thread with no request, and the status its last request ended with
Idle(status) == [pc |-> "idle", status |-> status]

\* the timestamps of a list that a window of block_seconds ending at
\* current still holds
Unexpired(timestamps, current) ==
    SelectSeq(timestamps, LAMBDA ts : ts > current - block_seconds)

\* nothing has called the login route
LoginAtRest ==
    /\ attempts = [k \in Keys |-> <<>>]
    /\ now = 0
    /\ requests = [w \in Workers |-> Idle(0)]
    /\ credential_checks = [k \in Keys |-> <<>>]

\* the database sessions of the requests that call the policy service at
\* the same time
DbSessions == 1..MaxCalls

\* a database session whose request has not started
NotCalled == [pc |-> "idle"]

\* no request is in flight and the tables of the routes are empty
RoutesAtRest ==
    /\ policy_calls = [s \in DbSessions |-> NotCalled]
    /\ transfer_plan_line = {}
    /\ plan_response = [op |-> "none"]
    /\ sessions = {}
    /\ uq_sessions_leader_true = FALSE
    /\ sessions_response = [op |-> "none"]

ServicesAtRest ==
    /\ PolicyServiceAtRest
    /\ LoginAtRest
    /\ RoutesAtRest

InitLocals ==
    /\ rows_by_sku = <<>>
    /\ recommendations = <<>>
    /\ pc = "group"
    /\ sku_i = 0
    /\ shortages = <<>>
    /\ target_i = 0
    /\ donors = NoDonors
    /\ bucket = "none"
    /\ donor_i = 0
    /\ shortage_remaining = ZERO
    /\ fs = FairReturned(<<>>)

Init ==
    /\ \E m1 \in MainShapes, m2 \in MainShapes,
          s1 \in SecondaryShapes, s2 \in SecondaryShapesW2 :
          matrix_rows = RowsOf("SKU-1", m1, s1, m2, s2)
    /\ warehouse_main_channels \in MainChannelMaps
    /\ policy \in ReallocationPolicyData({"closing"})
    /\ InitLocals
    /\ completed = <<>>
    /\ ServicesAtRest

Next ==
    \/ Group
    \/ GreedySku
    \/ GreedyTarget
    \/ GreedySkuDone
    \/ GreedyAllocate
    \/ GreedyBucketEnd
    \/ FairShareSku
    \/ FairIntra
    \/ FairInterNonmain
    \/ FairInterMain
    \/ Return

Spec == Init /\ [][Next]_vars

\* ------------------------------------------------------------------------
\* The scenarios of tests/test_transfer_logic.py, in whole units, under every
\* policy (deficit_basis included, which the tests pass to the policy)
\* ------------------------------------------------------------------------
U(units) == units * MOVE_UNIT

TestRow(warehouse, channel, closing, std, gap, anchor) ==
    MatrixRowData("SKU-1", warehouse, channel, U(anchor), U(closing), U(std), U(gap))

BothMain == <<<<"W1", "main">>, <<"W2", "main">>>>

EqualizeClosingRows ==
    <<TestRow("W1", "main", 100, 300, -200, 100),
      TestRow("W2", "main", 200, 300, -100, 200),
      TestRow("W2", "secondary", 200, 0, 100, 200)>>

OverfillCapRows ==
    <<TestRow("W1", "main", 200, 300, -100, 200),
      TestRow("W2", "main", 200, 300, -100, 200),
      TestRow("W1", "secondary", 250, 0, 200, 250),
      TestRow("W2", "secondary", 250, 0, 200, 250)>>

EqualizeStartRows ==
    <<TestRow("W1", "main", 120, 300, -180, 280),
      TestRow("W2", "main", 120, 300, -180, 60),
      TestRow("W1", "secondary", 200, 0, 50, 200),
      TestRow("W2", "secondary", 200, 0, 50, 200)>>

MainDonorRows ==
    <<TestRow("W1", "main", 100, 300, -200, 100),
      TestRow("W2", "main", 400, 300, 100, 400)>>

FairDeficitBasisRows ==
    <<TestRow("W1", "main", 110, 100, -50, 50),
      TestRow("W2", "main", 100, 100, 0, 100),
      TestRow("W1", "secondary", 200, 0, 200, 200)>>

DeficitBasisRows ==
    <<TestRow("W1", "main", 140, 120, -40, 80),
      TestRow("W1", "secondary", 160, 0, 160, 160)>>

TestScenarios ==
    {<<EqualizeClosingRows, BothMain>>, <<OverfillCapRows, BothMain>>,
     <<EqualizeStartRows, BothMain>>, <<MainDonorRows, BothMain>>,
     <<FairDeficitBasisRows, BothMain>>,
     <<DeficitBasisRows, <<<<"W1", "main">>>>>>}

InitTests ==
    /\ \E sc \in TestScenarios :
          /\ matrix_rows = sc[1]
          /\ warehouse_main_channels = sc[2]
    /\ policy \in ReallocationPolicyData(DeficitBases)
    /\ InitLocals
    /\ completed = <<>>
    /\ ServicesAtRest

SpecTests == InitTests /\ [][Next]_vars

\* ------------------------------------------------------------------------
\* Properties
\* ------------------------------------------------------------------------
Moves == {recommendations[n] : n \in 1..Len(recommendations)}
Rows == {matrix_rows[n] : n \in 1..Len(matrix_rows)}

\* total qty of the returned moves leaving, and entering, the cell of a row
MovedOut(row) ==
    SumSeq([n \in 1..Len(recommendations) |->
               IF /\ recommendations[n].sku_code = row.sku_code
                  /\ recommendations[n].from_warehouse = row.warehouse_name
                  /\ recommendations[n].from_channel = row.channel
               THEN recommendations[n].qty ELSE 0])

MovedIn(row) ==
    SumSeq([n \in 1..Len(recommendations) |->
               IF /\ recommendations[n].sku_code = row.sku_code
                  /\ recommendations[n].to_warehouse = row.warehouse_name
                  /\ recommendations[n].to_channel = row.channel
               THEN recommendations[n].qty ELSE 0])

TotalMoved == SumSeq([n \in 1..Len(recommendations) |-> recommendations[n].qty])

\* min(max(gap, 0), max(stock_at_anchor, 0)) of a row
RowSurplus(row) == Min2(Max2(row.gap, 0), Max2(row.stock_at_anchor, 0))

\* max(0, stdstock - stock_closing) of a row
RowRoom(row) == Max2(0, row.stdstock - row.stock_closing)

IsMainRow(row) ==
    \E n \in 1..Len(warehouse_main_channels) :
        warehouse_main_channels[n] = <<row.warehouse_name, row.channel>>

SourceRow(move) ==
    CHOOSE row \in Rows : /\ row.sku_code = move.sku_code
                          /\ row.warehouse_name = move.from_warehouse
                          /\ row.channel = move.from_channel

TargetRow(move) ==
    CHOOSE row \in Rows : /\ row.sku_code = move.sku_code
                          /\ row.warehouse_name = move.to_warehouse
                          /\ row.channel = move.to_channel

C3_PolicyGate ==
    ~policy.take_from_other_main =>
        \A move \in Moves :
            MainChannelOf(warehouse_main_channels, move.from_warehouse) # move.from_channel

\* the only whole unit of surplus sits in a main channel, another main channel
\* is short of a whole unit, and nothing is returned
C3_Witness ==
    /\ pc = "done"
    /\ ~policy.take_from_other_main
    /\ recommendations = <<>>
    /\ \E row \in Rows : IsMainRow(row) /\ RowSurplus(row) >= MOVE_UNIT
    /\ \E row \in Rows : /\ IsMainRow(row)
                         /\ row.gap <= 0 - MOVE_UNIT
                         /\ RowRoom(row) >= MOVE_UNIT
    /\ \A row \in Rows : ~IsMainRow(row) => RowSurplus(row) = 0

\* C4 (targets are main cells): every move enters the configured main channel
\* of its warehouse, and that cell has gap < 0; a warehouse without an entry
\* receives nothing.
C4_TargetsAreMain ==
    \A move \in Moves :
        /\ MainChannelOf(warehouse_main_channels, move.to_warehouse) = move.to_channel
        /\ \E row \in Rows : row = TargetRow(move) /\ row.gap < 0

\* a cell of a warehouse without an entry in the map is the source of a move
C4_Witness ==
    /\ pc = "done"
    /\ \E move \in Moves :
          MainChannelOf(warehouse_main_channels, move.from_warehouse) = ""

\* C5 (whole units): every move's qty is a positive whole number of units.
C5_WholeUnits ==
    \A move \in Moves : move.qty >= MOVE_UNIT /\ move.qty % MOVE_UNIT = 0

\* a move out of a cell with fractional surplus into a cell with fractional
\* shortage, under every rounding mode and in fair-share mode
C5_Witness ==
    /\ pc = "done"
    /\ policy.rounding_mode = "ceil"
    /\ policy.fair_share_mode # "off"
    /\ \E move \in Moves : /\ SourceRow(move).gap % MOVE_UNIT # 0
                           /\ TargetRow(move).gap % MOVE_UNIT # 0

\* C7 (greedy never overfills the shortage): in greedy mode the moves into a
\* cell sum to at most max(0, -gap) of its row.
C7_GreedyWithinShortage ==
    policy.fair_share_mode = "off" =>
        \A row \in Rows : MovedIn(row) <= Max2(0, 0 - row.gap)

\* a target has received every whole unit of its shortage and a donor still
\* holds a whole unit
C7_Witness ==
    /\ pc = "done"
    /\ policy.fair_share_mode = "off"
    /\ \E row \in Rows : /\ MovedIn(row) > 0
                         /\ MovedIn(row) = QuantizeFloor(0 - row.gap)
                         /\ \E donor \in Rows :
                               RowSurplus(donor) >= MovedOut(donor) + MOVE_UNIT

\* the receivers of the fair-share strategy, read from the rows: main cells
\* with gap < 0, a positive standard and, when overfill is not allowed, room
ReceiverRow(row) ==
    /\ IsMainRow(row)
    /\ row.gap < 0
    /\ row.stdstock > 0
    /\ (~policy.allow_overfill => row.stdstock - Max2(row.stock_closing, 0) > 0)

\* the donors of the fair-share strategy, read from the rows
DonorRow(row) ==
    /\ RowSurplus(row) > 0
    /\ (IsMainRow(row) => policy.take_from_other_main)

RECURSIVE SumRows(_, _)
SumRows(S, kind) ==
    IF S = {} THEN 0
    ELSE LET row == CHOOSE row \in S : TRUE
         IN (IF kind = "surplus" THEN QuantizeFloor(RowSurplus(row))
             ELSE QuantizeFloor(row.stdstock - Max2(row.stock_closing, 0)))
            + SumRows(S \ {row}, kind)

\* the transferable whole-unit quantity of the claim
Transferable ==
    LET donor_units == SumRows({row \in Rows : DonorRow(row)}, "surplus")
        room_units == SumRows({row \in Rows : ReceiverRow(row)}, "room")
    IN IF policy.allow_overfill THEN donor_units ELSE Min2(donor_units, room_units)

C10_LowerRatioFavoured ==
    (pc = "done" /\ policy.fair_share_mode # "off") =>
        \A a \in Rows, b \in Rows :
            LET ref(row) == IF policy.fair_share_mode = "equalize_ratio_start"
                            THEN Max2(row.stock_at_anchor, 0)
                            ELSE Max2(row.stock_closing, 0)
            IN (/\ ReceiverRow(a) /\ ReceiverRow(b)
                /\ a.stdstock = b.stdstock
                /\ (policy.fair_share_mode = "equalize_ratio_start"
                       => a.stock_closing = b.stock_closing)
                /\ ref(a) < ref(b))
               => MovedIn(a) >= MovedIn(b)

\* the row of a cell of the single-SKU scenarios
CellRow(warehouse, channel) ==
    CHOOSE row \in Rows : row.warehouse_name = warehouse /\ row.channel = channel

\* C6 (deficit basis): the main cell with stock_at_anchor 80, stdstock 120 and
\* stock_closing 140, next to a secondary cell of its warehouse with surplus,
\* receives 40 units in greedy mode under deficit_basis "start" and nothing
\* under "closing".
C6_DeficitBasisHonoured ==
    (/\ pc = "done"
     /\ matrix_rows = DeficitBasisRows
     /\ policy.fair_share_mode = "off")
    => /\ policy.deficit_basis = "start" => MovedIn(CellRow("W1", "main")) = U(40)
       /\ policy.deficit_basis = "closing" => MovedIn(CellRow("W1", "main")) = 0

Completed ==
    [matrix_rows |-> matrix_rows,
     warehouse_main_channels |-> warehouse_main_channels,
     policy |-> policy,
     recommendations |-> recommendations,
     fs |-> fs]

\* the rows with the stock and surplus of the secondary cell at position n
\* raised by d ticks
MoreSurplus(rows, n, d) ==
    [rows EXCEPT ![n].stock_at_anchor = Max2(@, ZERO) + d,
                 ![n].gap = Max2(@, ZERO) + d]

\* the next call: the same arguments again, the same with rounding_mode
\* "ceil" instead of "floor", the same with more surplus in one secondary
\* cell, or, after a call on other arguments, the arguments of the first call
CallAgain ==
    /\ pc = "done"
    /\ completed' = Append(completed, Completed)
    /\ \/ /\ completed = <<>>
          /\ UNCHANGED <<matrix_rows, warehouse_main_channels, policy>>
       \/ /\ completed = <<>>
          /\ policy.rounding_mode = "floor"
          /\ policy' = [policy EXCEPT !.rounding_mode = "ceil"]
          /\ UNCHANGED <<matrix_rows, warehouse_main_channels>>
       \/ /\ completed = <<>>
          /\ policy.fair_share_mode = "equalize_ratio_closing"
          /\ \E n \in 1..Len(matrix_rows) :
                /\ matrix_rows[n].channel # "main"
                /\ matrix_rows' = MoreSurplus(matrix_rows, n, 1)
          /\ UNCHANGED <<warehouse_main_channels, policy>>
       \/ /\ Len(completed) = 1
          /\ <<matrix_rows, policy>> # <<completed[1].matrix_rows, completed[1].policy>>
          /\ matrix_rows' = completed[1].matrix_rows
          /\ policy' = completed[1].policy
          /\ UNCHANGED warehouse_main_channels
    /\ rows_by_sku' = <<>>
    /\ recommendations' = <<>>
    /\ pc' = "group"
    /\ sku_i' = 0
    /\ shortages' = <<>>
    /\ target_i' = 0
    /\ donors' = NoDonors
    /\ bucket' = "none"
    /\ donor_i' = 0
    /\ shortage_remaining' = ZERO
    /\ fs' = FairReturned(<<>>)
    /\ UNCHANGED <<policy_service, login_service, routes>>

MainShapesCalls ==
    {<<0, b, MaxStd, 0 - MaxShortage>> : b \in {0, 1, 2}}
    \cup {<<MaxDonorGap, MaxDonorGap, 1, MaxDonorGap - 1>>}

SecondaryShapesCalls ==
    {<<0, 0, 0, 1>>, <<2, 2, 0, 1>>, <<MaxDonorGap, MaxDonorGap, 0, MaxDonorGap>>}

InitCalls ==
    /\ \E m1 \in MainShapesCalls, m2 \in MainShapesCalls,
          s1 \in SecondaryShapesCalls, s2 \in SecondaryShapesCalls :
          matrix_rows = RowsOf("SKU-1", m1, s1, m2, s2)
    /\ warehouse_main_channels = BothMain
    /\ policy \in ReallocationPolicyData({"closing"})
    /\ InitLocals
    /\ completed = <<>>
    /\ ServicesAtRest

NextCalls ==
    \/ Next
    \/ CallAgain

SpecCalls == InitCalls /\ [][NextCalls]_vars

\* total qty of the moves of a list entering the cell of a row
MovedInOf(moves, row) ==
    SumSeq([n \in 1..Len(moves) |->
               IF /\ moves[n].sku_code = row.sku_code
                  /\ moves[n].to_warehouse = row.warehouse_name
                  /\ moves[n].to_channel = row.channel
               THEN moves[n].qty ELSE 0])

\* the rows of the call in progress are those of an earlier call except for
\* more surplus in cells that are not main cells
SurplusRaised(earlier) ==
    /\ Len(earlier.matrix_rows) = Len(matrix_rows)
    /\ \A n \in 1..Len(matrix_rows) :
          LET old == earlier.matrix_rows[n]
              new == matrix_rows[n]
          IN /\ IsMainRow(old) => new = old
             /\ new.sku_code = old.sku_code
             /\ new.warehouse_name = old.warehouse_name
             /\ new.channel = old.channel
             /\ new.stock_closing = old.stock_closing
             /\ new.stdstock = old.stdstock
             /\ RowSurplus(new) >= RowSurplus(old)
    /\ \E n \in 1..Len(matrix_rows) :
          RowSurplus(matrix_rows[n]) > RowSurplus(earlier.matrix_rows[n])

\* C11 (fair-share monotonicity): under equalize_ratio_closing, with the
\* receiver rows, the main-channel map and the policy unchanged, a call with
\* more donor surplus gives no receiver less than the call with less.
C11_MoreSurplusNeverLess ==
    pc = "done" =>
        \A c \in 1..Len(completed) :
            (/\ policy.fair_share_mode = "equalize_ratio_closing"
             /\ completed[c].policy = policy
             /\ completed[c].warehouse_main_channels = warehouse_main_channels
             /\ SurplusRaised(completed[c]))
            => \A n \in 1..Len(matrix_rows) :
                  MovedIn(matrix_rows[n])
                      >= MovedInOf(completed[c].recommendations,
                                   completed[c].matrix_rows[n])

\* C12 (rounding order): with the rows, the main-channel map and the other
\* policy fields the same, every receiver gets under rounding_mode "ceil" at
\* least what it gets under "floor", in greedy and in fair-share mode.
C12_FloorAtMostCeil ==
    pc = "done" =>
        \A c \in 1..Len(completed) :
            (/\ policy.rounding_mode = "ceil"
             /\ completed[c].policy = [policy EXCEPT !.rounding_mode = "floor"]
             /\ completed[c].warehouse_main_channels = warehouse_main_channels
             /\ completed[c].matrix_rows = matrix_rows)
            => \A row \in Rows :
                  MovedInOf(completed[c].recommendations, row) <= MovedIn(row)

\* C13 (rounding error bound): under rounding_mode "floor" and "ceil" every
\* fair-share receiver's total differs by at most one unit from its unrounded
\* optimum, the plan computed for it before rounding and reconciliation.
C13_WithinOneUnit ==
    (/\ pc = "done"
     /\ policy.fair_share_mode # "off"
     /\ policy.rounding_mode \in {"floor", "ceil"}
     /\ fs.planned)
    => \A r \in 1..Len(fs.receivers) :
          LET received == MovedIn(matrix_rows[fs.receivers[r].idx]) * fs.plans[r].den
              optimum == fs.plans[r].num
              unit == MOVE_UNIT * fs.plans[r].den
          IN /\ received - optimum <= unit
             /\ optimum - received <= unit

\* ------------------------------------------------------------------------
\* Termination.  The arguments include an empty row list, an empty
\* main-channel map and a main channel without a row.  Quantities are read
\* from Numeric(20, 6) columns and stay far below the 28 digits of the
\* Decimal context, so that no quantize of the source overflows.
\* ------------------------------------------------------------------------
MainChannelMapsTotal ==
    {<<>>, <<<<"W1", "main">>>>, BothMain,
     <<<<"W1", "main">>, <<"W2", "web">>, <<"W3", "main">>>>}

MainShapesTotal ==
    {<<0, 1, MaxStd, 0 - MaxShortage>>,
     <<MaxDonorGap, MaxDonorGap, 1, MaxDonorGap - 1>>,
     <<-1, -1, 0, -1>>}

InitTotal ==
    /\ \/ matrix_rows = <<>>
       \/ \E m1 \in MainShapes, m2 \in MainShapesTotal,
             s1 \in SecondaryShapes, s2 \in SecondaryShapesW2 :
             matrix_rows = RowsOf("SKU-1", m1, s1, m2, s2)
    /\ warehouse_main_channels \in MainChannelMapsTotal
    /\ policy \in ReallocationPolicyData({"closing"})
    /\ InitLocals
    /\ completed = <<>>
    /\ ServicesAtRest

SpecTotal == InitTotal /\ [][Next]_vars

\* What is left of a call, most significant first: the SKUs, the strategy
\* phases of the SKU, and within a phase the targets, buckets and donors
\* (greedy), the receivers and donors (intra-warehouse loop) or the donors
\* and planned units (inter-warehouse loops) still to go through.
Rank ==
    LET skus == IF pc = "group" THEN Len(matrix_rows) + 2
                ELSE IF pc = "done" THEN 0
                ELSE Len(rows_by_sku) + 2 - sku_i
        phase == CASE pc = "sku" -> 5
                   [] pc \in {"target", "bucket"} -> 4
                   [] pc = "fs_intra_nonmain" -> 3
                   [] pc = "fs_inter_nonmain" -> 2
                   [] pc = "fs_inter_main" -> 1
                   [] OTHER -> 0
        inner == CASE pc = "target" ->
                        <<Len(shortages) + 1 - target_i, 4, 0>>
                   [] pc = "bucket" ->
                        <<Len(shortages) + 1 - target_i,
                          CASE bucket = "intra_nonmain" -> 3
                            [] bucket = "inter_nonmain" -> 2
                            [] OTHER -> 1,
                          Len(donors[bucket]) + 1 - donor_i>>
                   [] pc = "fs_intra_nonmain" ->
                        <<Len(fs.receiver_order) + 1 - fs.receiver_i,
                          Len(fs.donors_nonmain) + 1 - fs.donor_i, 0>>
                   [] pc = "fs_inter_nonmain" ->
                        <<Len(fs.donors_nonmain) + 1 - fs.donor_i, fs.remaining_total, 0>>
                   [] pc = "fs_inter_main" ->
                        <<Len(fs.donors_inter_main) + 1 - fs.donor_i, fs.remaining_total, 0>>
                   [] OTHER -> <<0, 0, 0>>
    IN <<skus, phase>> \o inner

\* lexicographic order on tuples of equal length
RECURSIVE LexLess(_, _)
LexLess(x, y) ==
    /\ x # <<>>
    /\ \/ Head(x) < Head(y)
       \/ Head(x) = Head(y) /\ LexLess(Tail(x), Tail(y))

\* the guard of some action holds: a step of the call can be taken
CanStep ==
    \/ pc = "group"
    \/ /\ pc = "sku"
       /\ \/ sku_i <= Len(rows_by_sku) /\ policy.fair_share_mode = "off"
          \/ sku_i <= Len(rows_by_sku) /\ policy.fair_share_mode # "off"
          \/ sku_i > Len(rows_by_sku)
    \/ /\ pc = "target"
       /\ \/ target_i <= Len(shortages)
          \/ target_i > Len(shortages)
    \/ /\ pc = "bucket"
       /\ \/ donor_i <= Len(donors[bucket]) /\ shortage_remaining > ZERO
          \/ donor_i > Len(donors[bucket]) \/ shortage_remaining <= ZERO
    \/ pc = "fs_intra_nonmain"
    \/ pc = "fs_inter_nonmain"
    \/ pc = "fs_inter_main"

\* a step of a fair-share execution loop commits a move of at least one
\* whole unit, goes on to the next donor or receiver, or leaves the loop
FairLoopProgress ==
    pc \in {"fs_intra_nonmain", "fs_inter_nonmain", "fs_inter_main"} =>
        \/ /\ Len(recommendations') = Len(recommendations) + 1
           /\ recommendations'[Len(recommendations')].qty >= MOVE_UNIT
        \/ pc' # pc
        \/ /\ recommendations' = recommendations
           /\ \/ fs'.donor_i > fs.donor_i
              \/ fs'.receiver_i > fs.receiver_i

\* C14 (total function): every call returns, whatever the rows and the
\* policy: what is left of the call is a tuple of naturals that every step
\* makes smaller, a step is possible until the call has returned, and every
\* step of a fair-share execution loop commits a whole unit or moves on.
C14_Terminates ==
    /\ [](\A n \in 1..Len(Rank) : Rank[n] >= 0)
    /\ [](pc # "done" => CanStep)
    /\ [][LexLess(Rank', Rank) /\ FairLoopProgress]_vars

\* a call with a short main cell and no donor at all has returned no move
C14_Witness ==
    /\ pc = "done"
    /\ recommendations = <<>>
    /\ \E row \in Rows : IsMainRow(row) /\ row.gap < 0 /\ row.stdstock > 0
    /\ \A row \in Rows : RowSurplus(row) = 0

\* a call that returned was made with the arguments of the call in progress
SameArguments(earlier) ==
    /\ earlier.matrix_rows = matrix_rows
    /\ earlier.warehouse_main_channels = warehouse_main_channels
    /\ earlier.policy = policy

\* C15 (purity): no step of a call changes the rows, the main-channel map or
\* the policy, and a call returns the move list that every earlier call with
\* the same arguments returned, whatever was called in between.
C15_Pure ==
    [][/\ pc # "done" => UNCHANGED <<matrix_rows, warehouse_main_channels, policy>>
       /\ (pc # "done" /\ pc' = "done") =>
             \A c \in 1..Len(completed) :
                 SameArguments(completed[c])
                     => completed[c].recommendations = recommendations']_vars

\* the third call has returned the moves of the first, after a second call
\* on other arguments that returned other moves
C15_Witness ==
    /\ pc = "done"
    /\ Len(completed) = 2
    /\ SameArguments(completed[1])
    /\ ~SameArguments(completed[2])
    /\ recommendations # <<>>
    /\ recommendations = completed[1].recommendations
    /\ recommendations # completed[2].recommendations

\* ------------------------------------------------------------------------
\* The reallocation policy service
\* (backend/app/services/reallocation_policy.py) over the table
\* reallocation_policies.  A call runs in its own database session from
\* start to end, so a call is one step.  Of updated_at only whether it is
\* set is kept.
\* ------------------------------------------------------------------------
NULL == "None"

\* what recommend_plan_lines and its caller hold
engine == <<matrix_rows, warehouse_main_channels, policy, completed,
            rows_by_sku, recommendations, pc, sku_i, greedy_locals, fs>>

\* the row models.ReallocationPolicy(id=1) once committed and refreshed
NewPolicyRecord ==
    [id |-> 1, take_from_other_main |-> FALSE, rounding_mode |-> "floor",
     allow_overfill |-> FALSE, fair_share_mode |-> "off",
     deficit_basis |-> "closing", updated_at |-> "now()", updated_by |-> NULL]

_record_to_data(record) ==
    [take_from_other_main |-> record.take_from_other_main,
     rounding_mode |-> record.rounding_mode,
     allow_overfill |-> record.allow_overfill,
     fair_share_mode |-> record.fair_share_mode,
     updated_at |-> record.updated_at,
     updated_by |-> record.updated_by]

_DEFAULT_POLICY ==
    [take_from_other_main |-> FALSE, rounding_mode |-> "floor",
     allow_overfill |-> FALSE, fair_share_mode |-> "off",
     updated_at |-> NULL, updated_by |-> NULL]

\* select(...).order_by(id).limit(1): no row, or the row of the lowest id
FirstPolicyRecord(table) ==
    IF table = {} THEN <<>>
    ELSE <<CHOOSE r \in table : \A q \in table : r.id <= q.id>>

_ensure_policy_record_Unchecked(exists, table) ==
    IF FirstPolicyRecord(table) # <<>>
    THEN [policy |-> FirstPolicyRecord(table), table |-> table]
    ELSE [policy |-> <<NewPolicyRecord>>, table |-> table \cup {NewPolicyRecord}]

\* the record, or <<>> for None, and the table as the call leaves it
_ensure_policy_record(exists, table) ==
    IF ~exists THEN [policy |-> <<>>, table |-> table]
    ELSE IF FirstPolicyRecord(table) # <<>>
    THEN [policy |-> FirstPolicyRecord(table), table |-> table]
    ELSE [policy |-> <<NewPolicyRecord>>, table |-> table \cup {NewPolicyRecord}]

get_reallocation_policy ==
    LET ensured == _ensure_policy_record(has_table, policy_table)
    IN /\ policy_table' = ensured.table
       /\ returned' = [op |-> "get", outcome |-> "returned",
                       data |-> IF ensured.policy = <<>> THEN _DEFAULT_POLICY
                                ELSE _record_to_data(ensured.policy[1])]
       /\ UNCHANGED <<has_table, written, engine, login_service, routes>>

\* the keyword arguments of update_reallocation_policy
UpdateArguments ==
    [take_from_other_main : BOOLEAN, rounding_mode : RoundingModes,
     allow_overfill : BOOLEAN, fair_share_mode : FairShareModes,
     updated_by : {"admin", NULL}]

Assigned(record, args) ==
    [record EXCEPT !.take_from_other_main = args.take_from_other_main,
                   !.rounding_mode = args.rounding_mode,
                   !.allow_overfill = args.allow_overfill,
                   !.fair_share_mode = args.fair_share_mode,
                   !.updated_by = args.updated_by,
                   !.updated_at = "now()"]

update_reallocation_policy_Fallback(args) ==
    LET ensured == _ensure_policy_record_Unchecked(has_table, policy_table)
        record == Assigned(ensured.policy[1], args)
    IN /\ policy_table' = (ensured.table \ {ensured.policy[1]}) \cup {record}
       /\ returned' = [op |-> "update", outcome |-> "returned",
                       data |-> _record_to_data(record), args |-> args]
       /\ written' = <<args>>
       /\ UNCHANGED <<has_table, engine, login_service, routes>>

update_reallocation_policy_Insert(args) ==
    LET ensured == _ensure_policy_record(has_table, policy_table)
    IN IF ensured.policy = <<>>
       THEN /\ returned' = [op |-> "update", outcome |-> "RuntimeError",
                            args |-> args]
            /\ policy_table' = ensured.table
            /\ UNCHANGED <<has_table, written, engine, login_service, routes>>
       ELSE LET record == Assigned([ensured.policy[1] EXCEPT !.id = @ + 1], args)
            IN /\ policy_table' = ensured.table \cup {record}
               /\ returned' = [op |-> "update", outcome |-> "returned",
                               data |-> _record_to_data(record), args |-> args]
               /\ written' = <<args>>
               /\ UNCHANGED <<has_table, engine, login_service, routes>>

update_reallocation_policy(args) ==
    LET ensured == _ensure_policy_record(has_table, policy_table)
    IN IF ensured.policy = <<>>
       THEN /\ returned' = [op |-> "update", outcome |-> "RuntimeError",
                            args |-> args]
            /\ policy_table' = ensured.table
            /\ UNCHANGED <<has_table, written, engine, login_service, routes>>
       ELSE LET record == Assigned(ensured.policy[1], args)
            IN /\ policy_table' = (ensured.table \ {ensured.policy[1]}) \cup {record}
               /\ returned' = [op |-> "update", outcome |-> "returned",
                               data |-> _record_to_data(record), args |-> args]
               /\ written' = <<args>>
               /\ UNCHANGED <<has_table, engine, login_service, routes>>

UpdatePolicy ==
    \E args \in UpdateArguments : update_reallocation_policy(args)

\* the migration creates the table
CreateTable ==
    /\ ~has_table
    /\ has_table' = TRUE
    /\ policy_table' = {}
    /\ returned' = [op |-> "none"]
    /\ UNCHANGED <<written, engine, login_service, routes>>

\* a row somebody saved before
SavedPolicyRecord ==
    [NewPolicyRecord EXCEPT !.rounding_mode = "ceil", !.updated_by = "admin"]

\* nothing has called recommend_plan_lines
EngineAtRest ==
    /\ matrix_rows = <<>>
    /\ warehouse_main_channels = <<>>
    /\ policy = [take_from_other_main |-> FALSE, rounding_mode |-> "floor",
                 allow_overfill |-> FALSE, fair_share_mode |-> "off",
                 deficit_basis |-> "closing"]
    /\ InitLocals
    /\ completed = <<>>

InitPolicy ==
    /\ EngineAtRest
    /\ has_table \in BOOLEAN
    /\ policy_table \in (IF has_table THEN {{}, {SavedPolicyRecord}} ELSE {{}})
    /\ returned = [op |-> "none"]
    /\ written = <<>>
    /\ LoginAtRest
    /\ RoutesAtRest

NextPolicy ==
    \/ get_reallocation_policy
    \/ UpdatePolicy
    \/ CreateTable

SpecPolicy == InitPolicy /\ [][NextPolicy]_vars

\* the arguments of an update, as a snapshot carries them
FieldsOf(data) ==
    [take_from_other_main |-> data.take_from_other_main,
     rounding_mode |-> data.rounding_mode,
     allow_overfill |-> data.allow_overfill,
     fair_share_mode |-> data.fair_share_mode,
     updated_by |-> data.updated_by]

C17_UpdateWithoutTableRaises ==
    [][(returned'.op = "update" /\ ~has_table) =>
            /\ returned'.outcome = "RuntimeError"
            /\ UNCHANGED <<has_table, policy_table>>]_vars

C17_Witness ==
    /\ returned.op = "update"
    /\ returned.outcome = "RuntimeError"
    /\ ~has_table
    /\ policy_table = {}

\* C18: an update that returns hands back a snapshot with exactly the
\* fields it was given, every get until the next update returns those same
\* fields, and the update changes the one row there is instead of adding a
\* second.
C18_ReadYourWrites ==
    /\ []((returned.op = "update" /\ returned.outcome = "returned") =>
            /\ FieldsOf(returned.data) = returned.args
            /\ written = <<returned.args>>)
    /\ []((returned.op = "get" /\ written # <<>>) =>
            FieldsOf(returned.data) = written[1])
    /\ [][(returned'.op = "update" /\ returned'.outcome = "returned") =>
            /\ Cardinality(policy_table') = 1
            /\ policy_table # {} =>
                  {r.id : r \in policy_table'} = {r.id : r \in policy_table}]_vars

\* a get after an update that changed every field of a saved row
C18_Witness ==
    /\ returned.op = "get"
    /\ written # <<>>
    /\ FieldsOf(returned.data) = written[1]
    /\ written[1] = [take_from_other_main |-> TRUE, rounding_mode |-> "round",
                     allow_overfill |-> TRUE,
                     fair_share_mode |-> "equalize_ratio_closing",
                     updated_by |-> "admin"]
    /\ \E r \in policy_table : r.id = SavedPolicyRecord.id

\* ------------------------------------------------------------------------
\* The login route (backend/app/routers/auth.py) and its LoginRateLimiter
\* (backend/app/security.py).  login is a plain def, which the framework
\* runs on the threads of a worker pool; the limiter is shared by them and
\* each of its methods runs under its lock, so one method call is one step.
\* A key that the dict does not hold is a key with no timestamps.
\* ------------------------------------------------------------------------
HTTP_200_OK == 200
HTTP_401_UNAUTHORIZED == 401
HTTP_429_TOO_MANY_REQUESTS == 429

\* the users table: alice, active, with the password "right"
CredentialsValid(username, password) ==
    username = "alice" /\ password = "right"

_cleanup(table, current) ==
    [k \in Keys |-> Unexpired(table[k], current)]

can_attempt(table, key) == Len(table[key]) < max_attempts

\* login, lines 40-45: the key, can_attempt, and the 429 response
LoginCanAttempt(w) ==
    /\ requests[w].pc = "idle"
    /\ \E host \in Hosts, username \in Usernames, password \in Passwords :
          LET key == _client_key(host, username)
              cleaned == _cleanup(attempts, now)
          IN /\ Len(credential_checks[key]) < MaxChecks
             /\ attempts' = cleaned
             /\ IF can_attempt(cleaned, key)
                THEN requests' = [requests EXCEPT ![w] =
                         [pc |-> "verify", key |-> key, username |-> username,
                          password |-> password]]
                ELSE requests' = [requests EXCEPT ![w] =
                         Idle(HTTP_429_TOO_MANY_REQUESTS)]
    /\ UNCHANGED <<now, credential_checks, engine, policy_service, routes>>

\* login, lines 47-50: the user is looked up and the password verified
LoginVerify(w) ==
    /\ requests[w].pc = "verify"
    /\ IF CredentialsValid(requests[w].username, requests[w].password)
       THEN /\ requests' = [requests EXCEPT ![w] =
                               [pc |-> "reset", key |-> requests[w].key]]
            /\ UNCHANGED credential_checks
       ELSE /\ requests' = [requests EXCEPT ![w] =
                               [pc |-> "register_failure", key |-> requests[w].key]]
            /\ credential_checks' =
                  [credential_checks EXCEPT ![requests[w].key] = Append(@, now)]
    /\ UNCHANGED <<attempts, now, engine, policy_service, routes>>

\* login, lines 51-52
register_failure(w) ==
    /\ requests[w].pc = "register_failure"
    /\ attempts' = [_cleanup(attempts, now) EXCEPT
                       ![requests[w].key] = Append(@, now)]
    /\ requests' = [requests EXCEPT ![w] = Idle(HTTP_401_UNAUTHORIZED)]
    /\ UNCHANGED <<now, credential_checks, engine, policy_service, routes>>

\* login, line 54 and the response
reset(w) ==
    /\ requests[w].pc = "reset"
    /\ attempts' = [attempts EXCEPT ![requests[w].key] = <<>>]
    /\ requests' = [requests EXCEPT ![w] = Idle(HTTP_200_OK)]
    /\ UNCHANGED <<now, credential_checks, engine, policy_service, routes>>

\* time.monotonic() advances; of the failed credential checks those that
\* a window ending now or later can hold are followed
Tick ==
    /\ now < MaxNow
    /\ now' = now + 1
    /\ credential_checks' =
          [k \in Keys |-> Unexpired(credential_checks[k], now + 1)]
    /\ UNCHANGED <<attempts, requests, engine, policy_service, routes>>

InitLogin ==
    /\ EngineAtRest
    /\ PolicyServiceAtRest
    /\ LoginAtRest
    /\ RoutesAtRest

NextLogin ==
    \/ \E w \in Workers : LoginCanAttempt(w)
    \/ \E w \in Workers : LoginVerify(w)
    \/ \E w \in Workers : register_failure(w)
    \/ \E w \in Workers : reset(w)
    \/ Tick

SpecLogin == InitLogin /\ [][NextLogin]_vars

\* the failed credential checks of a key in the window of block_seconds
\* that ends now
ChecksInWindow(key) ==
    {n \in 1..Len(credential_checks[key]) :
        /\ credential_checks[key][n] > now - block_seconds
        /\ credential_checks[key][n] <= now}

\* C19: per key, at most max_attempts failed credential checks are made in
\* any window of block_seconds, whatever the interleaving of the requests.
C19_AtMostMaxAttemptsChecked ==
    \A key \in Keys : Cardinality(ChecksInWindow(key)) <= max_attempts

\* ------------------------------------------------------------------------
\* The order in which the greedy strategy serves its targets: calls on two
\* warehouses whose main cells are short by one unit, one and a half or two
\* units, listed in warehouse_main_channels in either order.
\* ------------------------------------------------------------------------
MainShapesOrder ==
    {<<0, 0, MaxStd + 1, 0 - g>> : g \in {Scale, MaxShortage, MaxShortage + 1}}
    \cup {<<MaxDonorGap, MaxDonorGap, 1, MaxDonorGap - 1>>}

SecondaryShapesOrder ==
    {<<a, a, 0, a>> : a \in {MaxDonorGap, 2 * Scale}}

MainChannelMapsOrder ==
    {<<<<"W1", "main">>, <<"W2", "main">>>>, <<<<"W2", "main">>, <<"W1", "main">>>>}

InitOrder ==
    /\ \E m1 \in MainShapesOrder, m2 \in MainShapesOrder,
          s1 \in SecondaryShapesOrder, s2 \in SecondaryShapesOrder :
          matrix_rows = RowsOf("SKU-1", m1, s1, m2, s2)
    /\ warehouse_main_channels \in MainChannelMapsOrder
    /\ policy \in ReallocationPolicyData({"closing"})
    /\ InitLocals
    /\ completed = <<>>
    /\ ServicesAtRest

SpecOrder == InitOrder /\ [][Next]_vars

\* position of a warehouse in the iteration of warehouse_main_channels
MainChannelPosition(warehouse) ==
    CHOOSE n \in 1..Len(warehouse_main_channels) :
        warehouse_main_channels[n][1] = warehouse

\* C20: in greedy mode the moves of one SKU are listed target by target, a
\* target with the larger shortage before one with the smaller, and targets
\* of equal shortage in the iteration order of warehouse_main_channels.
C20_DescendingShortage ==
    policy.fair_share_mode = "off" =>
        \A i \in 1..Len(recommendations) : \A j \in 1..Len(recommendations) :
            (/\ i < j
             /\ recommendations[i].sku_code = recommendations[j].sku_code
             /\ TargetRow(recommendations[i]) # TargetRow(recommendations[j]))
            => LET a == TargetRow(recommendations[i])
                   b == TargetRow(recommendations[j])
               IN \/ ShortageOf(a) > ShortageOf(b)
                  \/ /\ ShortageOf(a) = ShortageOf(b)
                     /\ MainChannelPosition(a.warehouse_name)
                           < MainChannelPosition(b.warehouse_name)

\* the target listed second in warehouse_main_channels has the larger
\* shortage, and both targets received
C20_Witness ==
    /\ pc = "done"
    /\ policy.fair_share_mode = "off"
    /\ \E i \in 1..Len(recommendations) : \E j \in 1..Len(recommendations) :
          /\ i < j
          /\ ShortageOf(TargetRow(recommendations[i]))
                > ShortageOf(TargetRow(recommendations[j]))
          /\ MainChannelPosition(recommendations[i].to_warehouse)
                > MainChannelPosition(recommendations[j].to_warehouse)

\* ------------------------------------------------------------------------
\* The order of the buckets of the greedy strategy
\* ------------------------------------------------------------------------
\* place of a reason tag in the order intra, inter non-main, inter main
BucketRank(reason) ==
    IF reason = _BUCKET_REASON["intra_nonmain"] THEN 1
    ELSE IF reason = _BUCKET_REASON["inter_nonmain"] THEN 2
    ELSE IF reason = _BUCKET_REASON["inter_main"] THEN 3
    ELSE 0

\* the bucket that a cell of the SKU being processed falls in as a donor
\* for the target a move enters
BucketRankOf(cell, move) ==
    IF cell.warehouse = move.to_warehouse
    THEN (IF cell.channel # move.to_channel THEN 1 ELSE 0)
    ELSE IF IsMainCell(cell, warehouse_main_channels) THEN 3
    ELSE 2

\* C21: in greedy mode the moves into one target are listed in the order
\* intra, inter non-main, inter main; a move is emitted from a bucket only
\* while every donor of the buckets before it has less than one whole unit
\* of available surplus; and once the shortage of the target is covered the
\* call goes on to the next target without another move.
C21_BucketPriority ==
    /\ [](policy.fair_share_mode = "off" =>
            \A i \in 1..Len(recommendations) : \A j \in 1..Len(recommendations) :
                (/\ i < j
                 /\ recommendations[i].sku_code = recommendations[j].sku_code
                 /\ recommendations[i].to_warehouse = recommendations[j].to_warehouse
                 /\ recommendations[i].to_channel = recommendations[j].to_channel)
                => /\ BucketRank(recommendations[i].reason) >= 1
                   /\ BucketRank(recommendations[i].reason)
                         <= BucketRank(recommendations[j].reason))
    /\ [][(policy.fair_share_mode = "off"
           /\ Len(recommendations') = Len(recommendations) + 1) =>
             LET move == recommendations'[Len(recommendations')]
             IN \A n \in 1..Len(Cells) :
                   (/\ BucketRankOf(Cells[n], move) >= 1
                    /\ BucketRankOf(Cells[n], move) < BucketRank(move.reason))
                   => available_surplus(Cells[n]) < MOVE_UNIT]_vars
    /\ [][(pc = "bucket" /\ shortage_remaining <= ZERO) =>
             /\ pc' = "target"
             /\ target_i' = target_i + 1
             /\ UNCHANGED <<recommendations, rows_by_sku>>]_vars

\* a target that received from its own warehouse and then, its shortage not
\* yet covered, from a secondary channel of another warehouse
C21_Witness ==
    /\ pc = "done"
    /\ policy.fair_share_mode = "off"
    /\ \E i \in 1..Len(recommendations) : \E j \in 1..Len(recommendations) :
          /\ i < j
          /\ recommendations[i].to_warehouse = recommendations[j].to_warehouse
          /\ recommendations[i].reason = _BUCKET_REASON["intra_nonmain"]
          /\ recommendations[j].reason = _BUCKET_REASON["inter_nonmain"]

\* C22: in greedy mode the qty of every emitted move is the smallest of the
\* donor's available surplus, the remaining shortage and, when allow_overfill
\* is false, the room of the receiver, rounded to a whole unit the way
\* policy.rounding_mode says (floor down, ceil up, round half up).
C22_GreedyRoundsPerPolicy ==
    [][(policy.fair_share_mode = "off"
        /\ Len(recommendations') = Len(recommendations) + 1) =>
          LET donor_state == Cells[donors[bucket][donor_i]]
              receiver_state == Cells[shortages[target_i].idx]
              least == Min2(available_surplus(donor_state), shortage_remaining)
              raw_qty == IF policy.allow_overfill THEN least
                         ELSE Min2(least, remaining_capacity(receiver_state))
          IN recommendations'[Len(recommendations')].qty
                = _round_quantity(Exact(raw_qty), policy.rounding_mode)]_vars

\* C23: in both strategies a move tagged intra stays in its warehouse and
\* leaves a channel that is not the main one; a move tagged inter non-main
\* changes warehouse and leaves a channel that is not the main one of its
\* warehouse; a move tagged inter main changes warehouse and leaves the main
\* channel of its warehouse; and there is no other tag.
C23_ReasonMatchesEndpoints ==
    \A move \in Moves :
        LET from_main == MainChannelOf(warehouse_main_channels, move.from_warehouse)
                            = move.from_channel
            same == move.from_warehouse = move.to_warehouse
        IN \/ /\ move.reason = "fill main channel (intra)"
              /\ same
              /\ ~from_main
           \/ /\ move.reason = "fill main channel (inter non-main)"
              /\ ~same
              /\ ~from_main
           \/ /\ move.reason = "fill main channel (inter main)"
              /\ ~same
              /\ from_main

\* a fair-share call that returned moves under two different tags
C23_Witness ==
    /\ pc = "done"
    /\ policy.fair_share_mode # "off"
    /\ \E move \in Moves : move.reason = "fill main channel (intra)"
    /\ \E move \in Moves : move.reason = "fill main channel (inter main)"

\* ------------------------------------------------------------------------
\* The order of the moves of the fair-share strategy
\* ------------------------------------------------------------------------
\* base/std of the receiver a row stands for (lines 355-360, 598-601)
ReceiverRatio(row) ==
    [p |-> IF policy.fair_share_mode = "equalize_ratio_start"
           THEN Max2(row.stock_at_anchor, ZERO)
           ELSE Max2(row.stock_closing, ZERO),
     q |-> row.stdstock]

\* C24: in fair-share mode the moves of a SKU are listed receiver by
\* receiver in ascending base/std order, every move into a receiver with a
\* lower ratio before every move into one with a higher ratio, and the moves
\* into one receiver in the order intra, inter non-main, inter main.
C24_ReceiverByReceiver ==
    policy.fair_share_mode # "off" =>
        \A i \in 1..Len(recommendations) : \A j \in 1..Len(recommendations) :
            (i < j /\ recommendations[i].sku_code = recommendations[j].sku_code)
            => LET a == TargetRow(recommendations[i])
                   b == TargetRow(recommendations[j])
               IN /\ ~RatLess(ReceiverRatio(b), ReceiverRatio(a))
                  /\ a = b => BucketRank(recommendations[i].reason)
                                 <= BucketRank(recommendations[j].reason)

\* ------------------------------------------------------------------------
\* Rows of several SKUs: a call on all the rows, then one call per SKU on
\* the rows of that SKU alone, with the same map and policy.
\* ------------------------------------------------------------------------
\* the sku codes of rows in the order of their first appearance
RECURSIVE SkuOrder(_)
SkuOrder(rows) ==
    IF rows = <<>> THEN <<>>
    ELSE LET before == SkuOrder(SubSeq(rows, 1, Len(rows) - 1))
             code == rows[Len(rows)].sku_code
         IN IF \E n \in 1..Len(before) : before[n] = code THEN before
            ELSE Append(before, code)

\* the rows of the first call
AllRows == IF completed = <<>> THEN matrix_rows ELSE completed[1].matrix_rows

\* the next call: the rows of the next SKU alone
CallPerSku ==
    /\ pc = "done"
    /\ Len(completed) < Len(SkuOrder(AllRows))
    /\ completed' = Append(completed, Completed)
    /\ matrix_rows' = SelectSeq(AllRows,
          LAMBDA row : row.sku_code = SkuOrder(AllRows)[Len(completed) + 1])
    /\ rows_by_sku' = <<>>
    /\ recommendations' = <<>>
    /\ pc' = "group"
    /\ sku_i' = 0
    /\ shortages' = <<>>
    /\ target_i' = 0
    /\ donors' = NoDonors
    /\ bucket' = "none"
    /\ donor_i' = 0
    /\ shortage_remaining' = ZERO
    /\ fs' = FairReturned(<<>>)
    /\ UNCHANGED <<warehouse_main_channels, policy, policy_service, login_service, routes>>

\* the four rows of one SKU: a short main cell in each warehouse, a
\* secondary cell with surplus in W1 and one with or without surplus in W2
SkuRows(sku, b, a1, a2) ==
    RowsOf(sku, <<0, b, MaxStd, 0 - MaxShortage>>, <<a1, a1, 0, a1>>,
                <<0, 0, MaxStd, 0 - MaxShortage>>, <<a2, a2, 0, MaxDonorGap>>)

\* two lists of rows merged: the first row of the second list, then the
\* first list, then the rest of the second
Interleaved(first, second) ==
    <<Head(second)>> \o first \o Tail(second)

InitSkus ==
    /\ \E b1 \in {0, 1}, a1 \in {1, MaxDonorGap}, a2 \in {0, MaxDonorGap},
          b2 \in {0, 1}, c1 \in {1, MaxDonorGap}, c2 \in {0, MaxDonorGap} :
          \/ matrix_rows = SkuRows("SKU-1", b1, a1, a2) \o SkuRows("SKU-2", b2, c1, c2)
          \/ matrix_rows = Interleaved(SkuRows("SKU-1", b1, a1, a2),
                                       SkuRows("SKU-2", b2, c1, c2))
    /\ warehouse_main_channels = BothMain
    /\ policy \in ReallocationPolicyData({"closing"})
    /\ InitLocals
    /\ completed = <<>>
    /\ ServicesAtRest

NextSkus ==
    \/ Next
    \/ CallPerSku

SpecSkus == InitSkus /\ [][NextSkus]_vars

\* the lists of moves of the calls from the n-th on, one after the other,
\* ending with the list of the call that has just returned
RECURSIVE MovesFrom(_)
MovesFrom(n) ==
    IF n > Len(completed) THEN recommendations
    ELSE completed[n].recommendations \o MovesFrom(n + 1)

\* C25: the moves returned for rows of several SKUs are the moves returned
\* for the rows of each SKU alone, under the same map and policy, one SKU
\* after the other in the order of first appearance in the rows.
C25_PerSkuIndependence ==
    (/\ pc = "done"
     /\ completed # <<>>
     /\ Len(completed) = Len(SkuOrder(AllRows)))
    => completed[1].recommendations = MovesFrom(2)

\* the rows start with a row of SKU-2, both SKUs received, and the call on
\* all rows and both calls on one SKU have returned
C25_Witness ==
    /\ pc = "done"
    /\ Len(completed) = 2
    /\ SkuOrder(AllRows) = <<"SKU-2", "SKU-1">>
    /\ completed[2].recommendations # <<>>
    /\ recommendations # <<>>
    /\ completed[1].recommendations = completed[2].recommendations \o recommendations

\* ------------------------------------------------------------------------
\* allocate_from_bucket giving up the target (return False, line 228)
\* ------------------------------------------------------------------------
\* the donors that the fill of the target would still go through if the
\* donor at hand were passed over: the rest of its bucket and the buckets
\* that lines 291-304 try after it
DonorsAhead ==
    SubSeq(donors[bucket], donor_i + 1, Len(donors[bucket]))
    \o (IF bucket = "intra_nonmain" THEN donors["inter_nonmain"] ELSE <<>>)
    \o (IF bucket # "inter_main" /\ policy.take_from_other_main
        THEN donors["inter_main"] ELSE <<>>)

\* the donor loop is at a donor whose iteration returns False
GivesUpTarget ==
    /\ pc = "bucket"
    /\ donor_i <= Len(donors[bucket])
    /\ shortage_remaining > ZERO
    /\ GreedyDecision(Cells[donors[bucket][donor_i]], Cells[shortages[target_i].idx],
                      shortage_remaining, policy).kind = "blocked"

\* C26: in greedy mode with allow_overfill false, giving up a target at the
\* first donor that finds no room left in the receiver returns the same
\* moves as passing over that donor: none of the donors that would still be
\* gone through, in the rest of the bucket and in the later buckets, would
\* yield a move.
C26_AbortEqualsSkip ==
    GivesUpTarget =>
        /\ ~policy.allow_overfill
        /\ \A n \in 1..Len(DonorsAhead) :
              GreedyDecision(Cells[DonorsAhead[n]], Cells[shortages[target_i].idx],
                             shortage_remaining, policy).kind # "move"

\* the target is given up after it has received a move, while a donor that
\* would still be gone through holds a whole unit
C26_Witness ==
    /\ GivesUpTarget
    /\ \E m \in 1..Len(recommendations) :
          /\ recommendations[m].to_warehouse = Cells[shortages[target_i].idx].warehouse
          /\ recommendations[m].to_channel = Cells[shortages[target_i].idx].channel
    /\ \E n \in 1..Len(DonorsAhead) :
          available_surplus(Cells[DonorsAhead[n]]) >= MOVE_UNIT

\* ------------------------------------------------------------------------
\* get_reallocation_policy called by several requests at once
\* (services/reallocation_policy.py:50-82).  Every request has its own
\* database session (deps.get_db), and the statements of
\* _ensure_policy_record are the steps: has_table, the select, and the
\* commit that flushes the INSERT of ReallocationPolicy(id=1).  A session
\* sees the rows committed by the others; id is the primary key.
\* ------------------------------------------------------------------------
PolicyCallEnded(outcome, data) ==
    [pc |-> "done", outcome |-> outcome, data |-> data]

\* the request enters get_reallocation_policy
BeginGet(s) ==
    /\ policy_calls[s].pc = "idle"
    /\ policy_calls' = [policy_calls EXCEPT ![s] = [pc |-> "has_table"]]
    /\ UNCHANGED <<policy_service, engine, login_service, plan_routes, session_routes>>

\* inspector.has_table(...): without the table the default is returned
CheckTable(s) ==
    /\ policy_calls[s].pc = "has_table"
    /\ policy_calls' = [policy_calls EXCEPT ![s] =
            IF ~has_table THEN PolicyCallEnded("returned", _DEFAULT_POLICY)
            ELSE [pc |-> "select"]]
    /\ UNCHANGED <<policy_service, engine, login_service, plan_routes, session_routes>>

\* select(...).order_by(id).limit(1): a row found is returned
SelectPolicy(s) ==
    /\ policy_calls[s].pc = "select"
    /\ policy_calls' = [policy_calls EXCEPT ![s] =
            IF FirstPolicyRecord(policy_table) # <<>>
            THEN PolicyCallEnded("returned",
                                 _record_to_data(FirstPolicyRecord(policy_table)[1]))
            ELSE [pc |-> "insert"]]
    /\ UNCHANGED <<policy_service, engine, login_service, plan_routes, session_routes>>

\* db.add(ReallocationPolicy(id=1)); db.commit(); db.refresh(policy): the
\* INSERT of a primary key that is already there raises IntegrityError,
\* which nothing catches
InsertPolicy(s) ==
    /\ policy_calls[s].pc = "insert"
    /\ IF \E r \in policy_table : r.id = NewPolicyRecord.id
       THEN /\ policy_calls' = [policy_calls EXCEPT ![s] =
                    PolicyCallEnded("IntegrityError", <<>>)]
            /\ UNCHANGED policy_table
       ELSE /\ policy_table' = policy_table \cup {NewPolicyRecord}
            /\ policy_calls' = [policy_calls EXCEPT ![s] =
                    PolicyCallEnded("returned", _record_to_data(NewPolicyRecord))]
    /\ UNCHANGED <<has_table, returned, written, engine, login_service,
                   plan_routes, session_routes>>

\* the table exists and is empty, and no request has started
InitRace ==
    /\ EngineAtRest
    /\ has_table = TRUE
    /\ policy_table = {}
    /\ returned = [op |-> "none"]
    /\ written = <<>>
    /\ LoginAtRest
    /\ RoutesAtRest

NextRace ==
    \E s \in DbSessions :
        \/ BeginGet(s)
        \/ CheckTable(s)
        \/ SelectPolicy(s)
        \/ InsertPolicy(s)

SpecRace == InitRace /\ [][NextRace]_vars

\* the four settings of a snapshot
PolicySettings(data) ==
    <<data.take_from_other_main, data.rounding_mode, data.allow_overfill,
      data.fair_share_mode>>

\* C27: whatever the interleaving of concurrent get_reallocation_policy
\* calls against an existing, empty policy table, every call that has ended
\* returned the default policy and none raised, and once all have ended the
\* table holds exactly one row, the one of id 1.
C27_RaceSafeCreation ==
    /\ \A s \in DbSessions :
          policy_calls[s].pc = "done" =>
              /\ policy_calls[s].outcome = "returned"
              /\ PolicySettings(policy_calls[s].data) = PolicySettings(_DEFAULT_POLICY)
    /\ (\A s \in DbSessions : policy_calls[s].pc = "done") =>
          /\ Cardinality(policy_table) = 1
          /\ \A r \in policy_table : r.id = 1

\* ------------------------------------------------------------------------
\* PUT /transfer-plans/{plan_id}/lines: replace_plan_lines
\* (routers/transfer_plans.py:124-202).  A quantity is a whole number of
\* QUANT (Decimal("0.000001")).  The request with its payload is in flight
\* until the handler runs; the handler runs in one database transaction.
\* ------------------------------------------------------------------------
QUANT == 1

\* the rows of transfer_plan, and a plan_id that has no row
TransferPlans == {"P1", "P2"}
PlanIds == TransferPlans \cup {"P9"}

\* a line_id a client may send (a UUID or None), the cells, the quantities
NoLineId == <<>>
LineIds == {NoLineId, <<"L1">>}
PlanCells == {<<"W1", "main">>, <<"W1", "sec">>}
LineQuantities == 1..MaxLineQty

\* TransferPlanLineWrite, without is_manual and reason, which are stored as
\* sent
TransferPlanLineWrite ==
    [line_id : LineIds, plan_id : {NULL, "P1"}, sku_code : {"A"},
     from : PlanCells, to : PlanCells, qty : LineQuantities]

Payloads ==
    UNION {[1..n -> TransferPlanLineWrite] : n \in 0..MaxLines}

\* fetch_matrix_rows(...) of the plan window as stock_map: the cells with PSI
\* data and their stock_at_anchor
stock_map == [c \in {<<"A", "W1", "sec">>} |-> 2]

\* stock_map.get(key, Decimal("0"))
StockOf(key) == IF key \in DOMAIN stock_map THEN stock_map[key] ELSE ZERO

OutgoingKey(line) == <<line.sku_code, line.from[1], line.from[2]>>

RECURSIVE OutgoingTotal(_, _, _)
OutgoingTotal(lines, key, n) ==
    IF n = 0 THEN ZERO
    ELSE OutgoingTotal(lines, key, n - 1)
         + (IF OutgoingKey(lines[n]) = key THEN lines[n].qty ELSE ZERO)

\* the detail of the HTTPException that the checks of line i raise, or ""
LineError(plan_id, lines, i) ==
    IF lines[i].plan_id # NULL /\ lines[i].plan_id # plan_id
    THEN "line plan_id mismatch"
    ELSE IF lines[i].from = lines[i].to
    THEN "from and to cannot be identical"
    ELSE IF /\ lines[i].line_id # NoLineId
            /\ \E j \in 1..(i - 1) : lines[j].line_id = lines[i].line_id
    THEN "duplicate line_id detected"
    ELSE ""

\* the first loop over payload.lines, then the loop over outgoing_totals
ValidationError(plan_id, lines) ==
    IF \E i \in 1..Len(lines) : LineError(plan_id, lines, i) # ""
    THEN LET first == CHOOSE i \in 1..Len(lines) :
                          /\ LineError(plan_id, lines, i) # ""
                          /\ \A j \in 1..(i - 1) : LineError(plan_id, lines, j) = ""
         IN LineError(plan_id, lines, first)
    ELSE IF \E i \in 1..Len(lines) :
               OutgoingTotal(lines, OutgoingKey(lines[i]), Len(lines))
                   - StockOf(OutgoingKey(lines[i])) > QUANT
    THEN "Insufficient stock at anchor"
    ELSE ""

\* models.TransferPlanLine(line_id=line.line_id or uuid.uuid4(), ...): the
\* uuid4 of the line at position i is a value no other row has
NewLine(plan_id, lines, i) ==
    [line_id |-> IF lines[i].line_id # NoLineId THEN lines[i].line_id
                 ELSE <<"uuid4", plan_id, i>>,
     plan_id |-> plan_id, sku_code |-> lines[i].sku_code,
     from |-> lines[i].from, to |-> lines[i].to, qty |-> lines[i].qty]

NewLines(plan_id, lines) == {NewLine(plan_id, lines, i) : i \in 1..Len(lines)}

\* the client sends PUT /transfer-plans/{plan_id}/lines
SendReplace ==
    /\ plan_response.op # "pending"
    /\ \E plan_id \in PlanIds, lines \in Payloads :
          plan_response' = [op |-> "pending", plan_id |-> plan_id, lines |-> lines]
    /\ UNCHANGED <<transfer_plan_line, engine, policy_service, login_service,
                   policy_race, session_routes>>

PlanAnswer(status_code, detail) ==
    [op |-> "replace_plan_lines", status_code |-> status_code, detail |-> detail]

\* the handler: _ensure_plan, the validation, the delete of the plan's rows,
\* the inserts and the commit.  line_id is the primary key of the table: an
\* INSERT of a line_id that a row of another plan has raises IntegrityError,
\* the transaction is rolled back and the request ends with 500.
replace_plan_lines ==
    /\ plan_response.op = "pending"
    /\ LET plan_id == plan_response.plan_id
           lines == plan_response.lines
           kept == {row \in transfer_plan_line : row.plan_id # plan_id}
       IN IF plan_id \notin TransferPlans
          THEN /\ plan_response' = PlanAnswer(404, "Plan not found")
               /\ UNCHANGED transfer_plan_line
          ELSE IF ValidationError(plan_id, lines) # ""
          THEN /\ plan_response' = PlanAnswer(422, ValidationError(plan_id, lines))
               /\ UNCHANGED transfer_plan_line
          ELSE IF \E row \in kept, new \in NewLines(plan_id, lines) :
                     row.line_id = new.line_id
          THEN /\ plan_response' = PlanAnswer(500, "IntegrityError")
               /\ UNCHANGED transfer_plan_line
          ELSE /\ plan_response' = PlanAnswer(200, "")
               /\ transfer_plan_line' = kept \cup NewLines(plan_id, lines)
    /\ UNCHANGED <<engine, policy_service, login_service, policy_race, session_routes>>

InitPlans ==
    /\ EngineAtRest
    /\ ServicesAtRest

NextPlans ==
    \/ SendReplace
    \/ replace_plan_lines

SpecPlans == InitPlans /\ [][NextPlans]_vars

\* the four reasons for which a request is turned down
MustReject(plan_id, lines) ==
    \/ \E i \in 1..Len(lines) : lines[i].from = lines[i].to
    \/ \E i, j \in 1..Len(lines) :
          i # j /\ lines[i].line_id # NoLineId /\ lines[i].line_id = lines[j].line_id
    \/ \E i \in 1..Len(lines) : lines[i].plan_id \notin {NULL, plan_id}
    \/ \E key \in {OutgoingKey(lines[i]) : i \in 1..Len(lines)} :
          OutgoingTotal(lines, key, Len(lines)) > StockOf(key) + QUANT

LinesOf(table, plan_id) == {row \in table : row.plan_id = plan_id}

\* a stored row and a submitted line agree (the line_id where one was sent)
SameLine(row, plan_id, line) ==
    /\ row.plan_id = plan_id
    /\ row.sku_code = line.sku_code /\ row.from = line.from
    /\ row.to = line.to /\ row.qty = line.qty
    /\ line.line_id # NoLineId => row.line_id = line.line_id

\* C28: a request on an existing plan is answered 422 and leaves the stored
\* lines as they were when a line has identical source and destination,
\* two lines share a line_id, a line names another plan or the summed qty of
\* a source cell exceeds its stock_at_anchor by more than 0.000001;
\* otherwise the stored lines of the plan become exactly the submitted
\* lines, and the lines of the other plans stay as they were.
C28_ValidatesBeforeWriting ==
    [][(plan_response.op = "pending" /\ plan_response.plan_id \in TransferPlans) =>
        LET plan_id == plan_response.plan_id
            lines == plan_response.lines
            stored == LinesOf(transfer_plan_line', plan_id)
        IN IF MustReject(plan_id, lines)
           THEN /\ plan_response'.status_code = 422
                /\ transfer_plan_line' = transfer_plan_line
           ELSE /\ Cardinality(stored) = Len(lines)
                /\ \E f \in [1..Len(lines) -> stored] :
                      /\ \A i, j \in 1..Len(lines) : i # j => f[i] # f[j]
                      /\ \A i \in 1..Len(lines) : SameLine(f[i], plan_id, lines[i])
                /\ \A other \in TransferPlans \ {plan_id} :
                      LinesOf(transfer_plan_line', other)
                          = LinesOf(transfer_plan_line, other)]_vars

\* ------------------------------------------------------------------------
\* Donors and receivers
\* ------------------------------------------------------------------------
\* the cell a move takes from and the cell it gives to: a cell is a
\* warehouse and channel of one SKU, as in rows_by_sku
MoveSource(move) == <<move.sku_code, move.from_warehouse, move.from_channel>>
MoveTarget(move) == <<move.sku_code, move.to_warehouse, move.to_channel>>

\* C29: no returned move has the same cell as source and destination, and
\* within one call of recommend_plan_lines no cell is the source of one move
\* and the destination of another, in both strategies and also with
\* take_from_other_main true.
C29_DonorsReceiversDisjoint ==
    \A m, n \in 1..Len(recommendations) :
        MoveSource(recommendations[m]) # MoveTarget(recommendations[n])

\* a call with take_from_other_main has returned moves into two main cells
\* that both hold stock, which neither of them has given away
C29_Witness ==
    /\ pc = "done"
    /\ policy.take_from_other_main
    /\ \E m, n \in 1..Len(recommendations) :
          MoveTarget(recommendations[m]) # MoveTarget(recommendations[n])
    /\ \A m \in 1..Len(recommendations) :
          \E r \in 1..Len(matrix_rows) :
              /\ <<matrix_rows[r].sku_code, matrix_rows[r].warehouse_name,
                    matrix_rows[r].channel>> = MoveTarget(recommendations[m])
              /\ matrix_rows[r].stock_at_anchor >= MOVE_UNIT

\* ------------------------------------------------------------------------
\* The session routes (routers/sessions.py): create_session, update_session,
\* delete_session and set_leader, one request after the other, each in its
\* own database transaction.  Of a row the id and is_leader are kept.  The
\* migrations create the partial unique index uq_sessions_leader_true
\* (alembic/versions/0001_create_sessions_and_psi.py:46-53); a table created
\* from models.Session, as the tests create it, has no such index.
\* ------------------------------------------------------------------------
SessionIds == 1..MaxSessions

\* the id of a request path: one of a row that may exist, or of none
UnknownSessionId == 0
RequestedIds == SessionIds \cup {UnknownSessionId}

HTTP_201_CREATED == 201
HTTP_204_NO_CONTENT == 204
HTTP_404_NOT_FOUND == 404
HTTP_500_INTERNAL_SERVER_ERROR == 500

SessionAnswer(op, session_id, status_code) ==
    [op |-> op, session_id |-> session_id, status_code |-> status_code]

\* what the database accepts at commit: with the index at most one row has
\* is_leader = TRUE
Committable(rows) ==
    uq_sessions_leader_true =>
        Cardinality({row \in rows : row.is_leader}) <= 1

\* models.Session(title=..., description=...): id is a fresh uuid4 and
\* is_leader takes its default
create_session ==
    \E id \in SessionIds :
        /\ \A row \in sessions : row.id # id
        /\ sessions' = sessions \cup {[id |-> id, is_leader |-> FALSE]}
        /\ sessions_response' = SessionAnswer("create_session", id, HTTP_201_CREATED)
        /\ UNCHANGED <<uq_sessions_leader_true, engine, policy_service,
                       login_service, policy_race, plan_routes>>

\* SessionUpdate.is_leader: not sent, or sent as true, false or null
SessionUpdateIsLeader == {"unset", "true", "false", "null"}

\* for field, value in payload.model_dump(exclude_unset=True).items():
\* setattr(session, field, value); the column is_leader is NOT NULL
update_session(session_id, is_leader) ==
    LET updated == {IF row.id = session_id /\ is_leader \in {"true", "false"}
                    THEN [row EXCEPT !.is_leader = (is_leader = "true")] ELSE row
                    : row \in sessions}
    IN /\ IF \A row \in sessions : row.id # session_id
          THEN /\ sessions_response' =
                      SessionAnswer("update_session", session_id, HTTP_404_NOT_FOUND)
               /\ UNCHANGED sessions
          ELSE IF is_leader = "null" \/ ~Committable(updated)
          THEN /\ sessions_response' =
                      SessionAnswer("update_session", session_id,
                                    HTTP_500_INTERNAL_SERVER_ERROR)
               /\ UNCHANGED sessions
          ELSE /\ sessions_response' =
                      SessionAnswer("update_session", session_id, HTTP_200_OK)
               /\ sessions' = updated
       /\ UNCHANGED <<uq_sessions_leader_true, engine, policy_service,
                      login_service, policy_race, plan_routes>>

delete_session(session_id) ==
    /\ IF \A row \in sessions : row.id # session_id
       THEN /\ sessions_response' =
                   SessionAnswer("delete_session", session_id, HTTP_404_NOT_FOUND)
            /\ UNCHANGED sessions
       ELSE /\ sessions_response' =
                   SessionAnswer("delete_session", session_id, HTTP_204_NO_CONTENT)
            /\ sessions' = {row \in sessions : row.id # session_id}
    /\ UNCHANGED <<uq_sessions_leader_true, engine, policy_service,
                   login_service, policy_race, plan_routes>>

\* update(models.Session).values(is_leader=False), then the row of session_id
\* gets is_leader = True and the transaction commits; the 404 of
\* _get_session_or_404 leaves the transaction to be rolled back by get_db
set_leader(session_id) ==
    /\ IF \A row \in sessions : row.id # session_id
       THEN /\ sessions_response' =
                   SessionAnswer("set_leader", session_id, HTTP_404_NOT_FOUND)
            /\ UNCHANGED sessions
       ELSE /\ sessions_response' =
                   SessionAnswer("set_leader", session_id, HTTP_200_OK)
            /\ sessions' = {[row EXCEPT !.is_leader = (row.id = session_id)]
                            : row \in sessions}
    /\ UNCHANGED <<uq_sessions_leader_true, engine, policy_service,
                   login_service, policy_race, plan_routes>>

InitSessions ==
    /\ EngineAtRest
    /\ PolicyServiceAtRest
    /\ LoginAtRest
    /\ policy_calls = [s \in DbSessions |-> NotCalled]
    /\ transfer_plan_line = {}
    /\ plan_response = [op |-> "none"]
    /\ sessions = {}
    /\ uq_sessions_leader_true \in BOOLEAN
    /\ sessions_response = [op |-> "none"]

NextSessions ==
    \/ create_session
    \/ \E id \in RequestedIds, is_leader \in SessionUpdateIsLeader :
          update_session(id, is_leader)
    \/ \E id \in RequestedIds : delete_session(id)
    \/ \E id \in RequestedIds : set_leader(id)

SpecSessions == InitSessions /\ [][NextSessions]_vars

Leaders(rows) == {row.id : row \in {r \in rows : r.is_leader}}

\* C30: after any sequence of create_session, update_session, set_leader and
\* delete_session calls at most one session has is_leader = true; after a
\* successful set_leader(s) the session s is the only leader; and a
\* set_leader on an unknown session id answers 404 and leaves the is_leader
\* flag of every session unchanged.
C30_SingleLeader ==
    /\ [](Cardinality(Leaders(sessions)) <= 1)
    /\ [][(sessions_response'.op = "set_leader"
           /\ sessions_response'.status_code = HTTP_200_OK)
          => Leaders(sessions') = {sessions_response'.session_id}]_vars
    /\ [][(sessions_response'.op = "set_leader"
           /\ \A row \in sessions : row.id # sessions_response'.session_id)
          => (/\ sessions_response'.status_code = HTTP_404_NOT_FOUND
              /\ sessions' = sessions)]_vars

====
